---- MODULE Spec2Model ----
(***************************************************************************)
(* Model of the ChronoSync timetable-to-calendar pipeline.                 *)
(*                                                                         *)
(*   SpecSync  : GoogleCalendarService.syncEvents, the batch sync engine   *)
(*               (mapping, chunking, concurrent create-event calls, the    *)
(*               token provider they share, result aggregation).          *)
(*   SpecParse : UploadPage.handleFile, the parse orchestrator, together   *)
(*               with LLMTimetableParser.enhanceEvents / parseFile and     *)
(*               their response validation.                                *)
(*   SpecParseFair : SpecParse with every awaited call settling.           *)
(*   SpecCalendar : GoogleCalendarService.checkExistingEvents and          *)
(*               deleteEvent with the token provider.                      *)
(*   SpecFunctions : the pure functions of LocalFileParser (rows to        *)
(*               events; time, date, type and duration normalization) and  *)
(*               of the calendar mapper, applied to bounded inputs.        *)
(*   SpecAuth  : GoogleAuthService (authenticate, signOut,                 *)
(*               getValidAccessToken, the stored tokens).                  *)
(*                                                                         *)
(* JavaScript is single threaded: one action is one macrotask (a timer, a  *)
(* network completion, a user call) together with the chain of microtasks  *)
(* it releases, which run before any other macrotask.                      *)
(***************************************************************************)
EXTENDS Integers, Sequences, FiniteSets, TLC

VARIABLES
    \* ---- GoogleAuthService
    tokens,         \* this.tokens: "none" | "valid" | "expired"
    \* ---- GoogleCalendarService.syncEvents
    timetableEvents,\* the argument of syncEvents
    syncPc,         \* "idle" | "batch" | "delay" | "returned" | "thrown"
    batches,        \* const batches
    batchIndex,     \* loop variable, 0-based as in the code
    task,           \* per event id: state of its batch.map callback
    attempts,       \* per event id: number of createEvent calls issued
    result,         \* the SyncResult under construction
    progress,       \* the onProgress calls made so far, in order
    \* ---- UploadPage.handleFile
    llm,            \* createLLMParser(): "none" | "openai" | "gemini"
    filePc,         \* position of handleFile
    parseStatus,    \* 'idle' | 'processing' | 'completed' | 'error'
    processingStep, \* 'local' | 'ai' | 'complete'
    parsedEvents,   \* state parsedEvents
    selectedEvents, \* state selectedEvents (set of ids)
    parseResult,    \* state parseResult (NoResult for null)
    localParseResult,\* state localParseResult (NoResult for null)
    uploadedFile,   \* the file handed to handleFile, by its kind ("none" for null)
    aiResult,       \* handleFile's local aiResult (NoResult before parseFile settles)
    response,       \* what the AI provider answered to the request of this run
    mockTimer,      \* a setTimeout(..., 1000) of the mock fallback is pending
    requests,       \* outbound AI provider requests issued by this run
    \* ---- GoogleCalendarService.checkExistingEvents / deleteEvent
    calOp,          \* the call under way or finished: "none" | "check" | "delete"
    calPc,          \* its position: "idle" | "reauth" | "fetch" | "done"
    calEvents,      \* the events argument of checkExistingEvents
    calResponse,    \* what ended the token step or the fetch of the call
    calOutcome,     \* how the call settled
    \* ---- GoogleAuthService beside this.tokens
    storedTokens,   \* localStorage 'chronosync_auth_tokens': "none" | "valid" | "expired" | "invalid"
    signOutPc,      \* signOut(): "idle" | "revoking" | "done"
    authFlows,      \* authenticate() calls whose callback is still to come
    tokenCall,      \* the last isAuthenticated() / getValidAccessToken() pair
    \* ---- a function of LocalFileParser or the event mapper applied to an input
    fn,             \* the function applied ("none" before any)
    fnArg,          \* its input
    fnOut           \* its output

syncVars == <<tokens, timetableEvents, syncPc, batches, batchIndex, task,
              attempts, result, progress>>
parseVars == <<llm, filePc, parseStatus, processingStep, parsedEvents,
               selectedEvents, parseResult, localParseResult, uploadedFile,
               aiResult, response, mockTimer, requests>>
engineVars == <<timetableEvents, syncPc, batches, batchIndex, task, attempts,
                result, progress>>
calVars == <<calOp, calPc, calEvents, calResponse, calOutcome>>
vars == <<tokens, timetableEvents, syncPc, batches, batchIndex, task,
          attempts, result, progress, llm, filePc, parseStatus,
          processingStep, parsedEvents, selectedEvents, parseResult,
          localParseResult, uploadedFile, aiResult, response, mockTimer,
          requests, calOp, calPc, calEvents, calResponse, calOutcome,
          storedTokens, signOutPc, authFlows, tokenCall, fn, fnArg, fnOut>>
authVars == <<storedTokens, signOutPc, authFlows, tokenCall>>
fnVars == <<fn, fnArg, fnOut>>

(***************************************************************************)
(* Bounds of the model.                                                    *)
(***************************************************************************)
MaxEvents == 7
\* rows of an uploaded file that the structured parser turns into events
MaxRows == 2

(***************************************************************************)
(* Small helpers.                                                          *)
(***************************************************************************)
Min(a, b) == IF a < b THEN a ELSE b

RECURSIVE Flatten(_)
Flatten(ss) == IF Len(ss) = 0 THEN <<>> ELSE Head(ss) \o Flatten(Tail(ss))

Range(s) == {s[i] : i \in 1..Len(s)}

(***************************************************************************)
(* Calendar Event Mapper: part_001 convertToCalendarEvent.                 *)
(*                                                                         *)
(* A time string is kept as what split(' - ') and split(':').map(Number)   *)
(* make of it: a sequence of parts, each a sequence of numbers, NaN for a  *)
(* component that is not a number.                                         *)
(***************************************************************************)
NaN == -1

GoodTime == << <<9, 0>>, <<10, 30>> >>       \* "09:00 - 10:30"
SingleTime == << <<9, 0>> >>                 \* "09:00": no ' - ' separator
TextTime == << <<NaN>>, <<NaN>> >>           \* "TBA - TBA"
TimeSamples == {GoodTime, SingleTime, TextTime}

\* parseTime: the minute of the day, or NaN for an Invalid Date
\* (setHours with a NaN or missing component).
ParseTime(timeStr) ==
    LET hours == IF Len(timeStr) >= 1 THEN timeStr[1] ELSE NaN
        minutes == IF Len(timeStr) >= 2 THEN timeStr[2] ELSE NaN
    IN  IF hours = NaN \/ minutes = NaN THEN NaN ELSE hours * 60 + minutes

\* parseTimeRange throws a TypeError when the split leaves no end time
\* (endTimeStr is undefined and parseTime calls undefined.split).
ParseTimeRangeThrows(timeRange) == Len(timeRange) < 2

ParseTimeRange(timeRange) ==
    <<ParseTime(timeRange[1]), ParseTime(timeRange[2])>>

\* a mapping that throws for a missing end time only
ConvertThrowsOnSplit(ev) == ParseTimeRangeThrows(ev.time)

\* convertToCalendarEvent throws: parseTimeRange threw, or toISOString is
\* called on an Invalid Date (RangeError).
ConvertThrows(ev) ==
    \/ ParseTimeRangeThrows(ev.time)
    \/ ParseTimeRange(ev.time)[1] = NaN
    \/ ParseTimeRange(ev.time)[2] = NaN

ConvertToCalendarEvent(ev) ==
    [id |-> ev.id, title |-> ev.title,
     startTime |-> ParseTimeRange(ev.time)[1],
     endTime |-> ParseTimeRange(ev.time)[2]]

(***************************************************************************)
(* Sync Engine: part_001 syncEvents, createEvent, chunkArray.              *)
(***************************************************************************)
batchSize == 5

\* chunkArray slicing one element too many per chunk
RECURSIVE ChunkArrayWide(_, _)
ChunkArrayWide(array, size) ==
    IF Len(array) = 0 THEN <<>>
    ELSE <<SubSeq(array, 1, Min(size + 1, Len(array)))>>
         \o ChunkArrayWide(SubSeq(array, size + 2, Len(array)), size)

RECURSIVE ChunkArray(_, _)
ChunkArray(array, size) ==
    IF Len(array) = 0 THEN <<>>
    ELSE <<SubSeq(array, 1, Min(size, Len(array)))>>
         \o ChunkArray(SubSeq(array, size + 1, Len(array)), size)

\* const result: SyncResult = {...} at the head of syncEvents
NewSyncResult ==
    [success |-> FALSE, eventsCreated |-> 0, eventsUpdated |-> 0,
     eventsFailed |-> 0, errors |-> <<>>]

\* The three canned inputs of a list of n events: ids are the positions.
EventLists ==
    UNION {{[i \in 1..n |-> [id |-> i, title |-> <<"title", i>>, time |-> t[i]]]
            : t \in [1..n -> TimeSamples]} : n \in 0..MaxEvents}

TaskStates == {"pending", "delay", "reauth", "fetch", "ok", "fail"}
Settled(id) == task[id] \in {"ok", "fail"}
InFlight(id) == task[id] \in {"reauth", "fetch"}

\* the batch being processed (batches[batchIndex] in the code)
CurrentBatch == batches[batchIndex + 1]
BatchIds(batch) == {batch[j].id : j \in 1..Len(batch)}

\* the loop going on as soon as one promise of the batch has settled
BatchAnySettled(batch) == \E id \in BatchIds(batch) : Settled(id)

\* await Promise.all(batchPromises): every promise of the batch has settled
\* (the callbacks catch everything, so none rejects).
BatchAllSettled(batch) == \A id \in BatchIds(batch) : Settled(id)

\* the try branch after createEvent resolved: result.eventsCreated++
RecordCreated(res) == [res EXCEPT !.eventsCreated = @ + 1]

\* the catch branch counting the failure without its errors entry
RecordFailedNoEntry(res, id, err) ==
    [res EXCEPT !.eventsFailed = @ + 1]

\* the catch branch of the batch.map callback
RecordFailed(res, id, err) ==
    [res EXCEPT !.eventsFailed = @ + 1,
                !.errors = Append(@, [eventId |-> id, error |-> err])]

\* the callback without its catch: the rejection reaches Promise.all and
\* the outer catch of syncEvents throws
OnCreateFailureRethrown(id, err) ==
    /\ task' = [task EXCEPT ![id] = "fail"]
    /\ syncPc' = "thrown"
    /\ UNCHANGED <<result, batches, batchIndex>>

\* A create-event call of event id failed with err: the callback's catch
\* records it and the callback's promise resolves.
OnCreateFailure(id, err) ==
    /\ task' = [task EXCEPT ![id] = "fail"]
    /\ result' = RecordFailed(result, id, err)
    /\ UNCHANGED <<syncPc, batches, batchIndex>>

\* getValidAccessToken as createEvent meets it: throws without a token,
\* awaits authenticate() with an expired one, else returns the token and
\* the fetch is issued.
TaskAfterCall(tok) ==
    CASE tok = "none" -> "fail"
      [] tok = "expired" -> "reauth"
      [] OTHER -> "fetch"

\* onProgress called with the index inside the batch instead of globalIndex
ProgressOfLocalIndex(bIndex, batch) ==
    [j \in 1..Len(batch) |->
        [completed |-> j - 1,
         total |-> Len(timetableEvents),
         currentEvent |-> batch[j].title]]

\* onProgress?.({completed: globalIndex, total, currentEvent: event.title})
ProgressOf(bIndex, batch) ==
    [j \in 1..Len(batch) |->
        [completed |-> bIndex * batchSize + (j - 1),
         total |-> Len(timetableEvents),
         currentEvent |-> batch[j].title]]

\* batch.map(async (event, index) => ...) up to each callback's first await:
\* every callback reports progress; index 0 calls createEvent at once, the
\* others start their 200 ms delay.
StartBatch(bIndex, bs) ==
    LET batch == bs[bIndex + 1]
        first == batch[1].id
    IN  /\ progress' = progress \o ProgressOf(bIndex, batch)
        /\ task' = [id \in DOMAIN task |->
                      IF id = first THEN TaskAfterCall(tokens)
                      ELSE IF id \in BatchIds(batch) THEN "delay"
                      ELSE task[id]]
        /\ attempts' = [attempts EXCEPT ![first] = @ + 1]
        /\ result' = IF tokens = "none"
                     THEN RecordFailed(result, first, "auth")
                     ELSE result

\* the end of syncEvents without its final onProgress
FinishWithoutProgress(res) ==
    /\ result' = [res EXCEPT !.success = (res.eventsFailed = 0)]
    /\ syncPc' = "returned"
    /\ UNCHANGED progress

\* success taken from the created count instead of the failed count
FinishByCreated(res) ==
    /\ result' = [res EXCEPT !.success = (res.eventsCreated > 0)]
    /\ progress' = Append(progress,
                      [completed |-> Len(timetableEvents),
                       total |-> Len(timetableEvents),
                       currentEvent |-> "Sync completed"])
    /\ syncPc' = "returned"

\* result.success = result.eventsFailed === 0; the final onProgress; return
Finish(res) ==
    /\ result' = [res EXCEPT !.success = (res.eventsFailed = 0)]
    /\ progress' = Append(progress,
                      [completed |-> Len(timetableEvents),
                       total |-> Len(timetableEvents),
                       currentEvent |-> "Sync completed"])
    /\ syncPc' = "returned"

\* The call of syncEvents up to its first await. A mapping failure throws
\* out of the outer try: 'Failed to sync events'.
SyncEvents ==
    /\ syncPc = "idle"
    /\ IF \E i \in 1..Len(timetableEvents) : ConvertThrows(timetableEvents[i])
       THEN /\ syncPc' = "thrown"
            /\ UNCHANGED <<batches, batchIndex, task, attempts, result, progress>>
       ELSE LET calendarEvents ==
                    [i \in 1..Len(timetableEvents) |->
                        ConvertToCalendarEvent(timetableEvents[i])]
                bs == ChunkArray(calendarEvents, batchSize)
            IN  /\ batches' = bs
                /\ batchIndex' = 0
                /\ IF Len(bs) = 0
                   THEN /\ Finish(result)
                        /\ UNCHANGED <<task, attempts>>
                   ELSE /\ StartBatch(0, bs)
                        /\ syncPc' = "batch"
    /\ UNCHANGED <<tokens, timetableEvents>>
    /\ UNCHANGED parseVars
    /\ UNCHANGED calVars
    /\ UNCHANGED <<authVars, fnVars>>

\* await this.delay(200) of a callback with index > 0 is over: createEvent
\* is called. The timers of a batch are set in one go with the same timeout,
\* so they fire in the order of the callbacks.
DelayElapsed(id) ==
    /\ task[id] = "delay"
    /\ \A other \in DOMAIN task : other < id => task[other] # "delay"
    /\ attempts' = [attempts EXCEPT ![id] = @ + 1]
    /\ IF tokens = "none"
       THEN OnCreateFailure(id, "auth")
       ELSE /\ task' = [task EXCEPT ![id] = TaskAfterCall(tokens)]
            /\ UNCHANGED <<result, syncPc, batches, batchIndex>>
    /\ UNCHANGED <<tokens, timetableEvents, progress>>
    /\ UNCHANGED parseVars
    /\ UNCHANGED calVars
    /\ UNCHANGED <<authVars, fnVars>>

\* authenticate() of an expired token settles: the callback stores the new
\* tokens and the fetch is issued, or it rejects and createEvent throws.
AuthenticateSettles(id) ==
    /\ task[id] = "reauth"
    /\ \/ /\ tokens' = "valid"
          /\ task' = [task EXCEPT ![id] = "fetch"]
          /\ UNCHANGED <<result, syncPc, batches, batchIndex>>
       \/ /\ OnCreateFailure(id, "auth")
          /\ UNCHANGED tokens
    /\ UNCHANGED <<timetableEvents, attempts, progress>>
    /\ UNCHANGED parseVars
    /\ UNCHANGED calVars
    /\ UNCHANGED <<authVars, fnVars>>

\* the POST of createEvent settles: 2xx with a body, or a network error,
\* a non-2xx response or an unreadable body (createEvent throws).
FetchSettles(id) ==
    /\ task[id] = "fetch"
    /\ \/ /\ task' = [task EXCEPT ![id] = "ok"]
          /\ result' = RecordCreated(result)
          /\ UNCHANGED <<syncPc, batches, batchIndex>>
       \/ OnCreateFailure(id, "http")
    /\ UNCHANGED <<tokens, timetableEvents, attempts, progress>>
    /\ UNCHANGED parseVars
    /\ UNCHANGED calVars
    /\ UNCHANGED <<authVars, fnVars>>

\* the loop going on to its end without awaiting the batch's promises
BatchSettlesEarly ==
    /\ syncPc = "batch"
    /\ IF batchIndex < Len(batches) - 1
       THEN /\ syncPc' = "delay"
            /\ UNCHANGED <<result, progress>>
       ELSE Finish(result)
    /\ UNCHANGED <<tokens, timetableEvents, batches, batchIndex, task, attempts>>
    /\ UNCHANGED parseVars
    /\ UNCHANGED calVars
    /\ UNCHANGED <<authVars, fnVars>>

\* Promise.all of the batch resolves: the inter-batch delay starts, or,
\* after the last batch, syncEvents finishes and returns.
BatchSettles ==
    /\ syncPc = "batch"
    /\ BatchAllSettled(CurrentBatch)
    /\ IF batchIndex < Len(batches) - 1
       THEN /\ syncPc' = "delay"
            /\ UNCHANGED <<result, progress>>
       ELSE Finish(result)
    /\ UNCHANGED <<tokens, timetableEvents, batches, batchIndex, task, attempts>>
    /\ UNCHANGED parseVars
    /\ UNCHANGED calVars
    /\ UNCHANGED <<authVars, fnVars>>

\* await this.delay(1000) is over: the loop moves to the next batch.
InterBatchDelayElapsed ==
    /\ syncPc = "delay"
    /\ batchIndex' = batchIndex + 1
    /\ StartBatch(batchIndex + 1, batches)
    /\ syncPc' = "batch"
    /\ UNCHANGED <<tokens, timetableEvents, batches>>
    /\ UNCHANGED parseVars
    /\ UNCHANGED calVars
    /\ UNCHANGED <<authVars, fnVars>>

(***************************************************************************)
(* JavaScript values of the parse pipeline.                                *)
(***************************************************************************)
Undefined == [t |-> "undefined"]
JString == [t |-> "string"]                  \* a non-empty string: truthy, no array
JArray(s) == [t |-> "array", v |-> s]
NoResult == [null |-> TRUE]                  \* a state holding null
NoResponse == [kind |-> "none"]
NullEvent == [null |-> TRUE]                 \* a null element of an array

\* x || y of JavaScript for the values above (an empty array is truthy)
Truthy(x) == x # Undefined

\* the token service at rest (the storage is followed under SpecAuth only)
AuthIdle ==
    /\ storedTokens = "none"
    /\ signOutPc = "idle"
    /\ authFlows = 0
    /\ tokenCall = [kind |-> "none"]

\* no function applied yet
FnIdle ==
    /\ fn = "none"
    /\ fnArg = <<>>
    /\ fnOut = <<>>

\* no call of checkExistingEvents or deleteEvent made yet
CalIdle ==
    /\ calOp = "none"
    /\ calPc = "idle"
    /\ calEvents = <<>>
    /\ calResponse = [kind |-> "none"]
    /\ calOutcome = [kind |-> "none"]

ParseIdle ==
    /\ filePc = "idle"
    /\ parseStatus = "idle"
    /\ processingStep = "local"
    /\ parsedEvents = JArray(<<>>)
    /\ selectedEvents = {}
    /\ parseResult = NoResult
    /\ localParseResult = NoResult
    /\ uploadedFile = "none"
    /\ aiResult = NoResult
    /\ response = NoResponse
    /\ mockTimer = FALSE
    /\ requests = 0

(***************************************************************************)
(* The sync engine's specification: one call of syncEvents, for every      *)
(* event list of the bound and every state of the token provider.          *)
(***************************************************************************)
InitSync ==
    /\ tokens \in {"none", "valid", "expired"}
    /\ timetableEvents \in EventLists
    /\ syncPc = "idle"
    /\ batches = <<>>
    /\ batchIndex = 0
    /\ task = [id \in 1..Len(timetableEvents) |-> "pending"]
    /\ attempts = [id \in 1..Len(timetableEvents) |-> 0]
    /\ result = NewSyncResult
    /\ progress = <<>>
    /\ llm = "none"
    /\ ParseIdle
    /\ CalIdle
    /\ AuthIdle
    /\ FnIdle

NextSync ==
    \/ SyncEvents
    \/ \E id \in DOMAIN task : DelayElapsed(id)
    \/ \E id \in DOMAIN task : AuthenticateSettles(id)
    \/ \E id \in DOMAIN task : FetchSettles(id)
    \/ BatchSettles
    \/ InterBatchDelayElapsed

SpecSync == InitSync /\ [][NextSync]_vars

(***************************************************************************)
(* Properties of the sync engine.                                          *)
(***************************************************************************)
Ids == DOMAIN task
Mapped == \A i \in 1..Len(timetableEvents) : ~ConvertThrows(timetableEvents[i])
CalendarEvents ==
    [i \in 1..Len(timetableEvents) |-> ConvertToCalendarEvent(timetableEvents[i])]
OkIds == {id \in Ids : task[id] = "ok"}
FailedIds == {id \in Ids : task[id] = "fail"}
\* every event of the batch numbered a (1-based) has settled
BatchAllSettledAt(a) == \A id \in BatchIds(batches[a]) : task[id] \in {"ok", "fail"}

C2_CountsMatchOutcomes ==
    /\ result.eventsCreated = Cardinality(OkIds)
    /\ result.eventsFailed = Cardinality(FailedIds)
    /\ Len(result.errors) = Cardinality(FailedIds)
    /\ {result.errors[k].eventId : k \in 1..Len(result.errors)} = FailedIds
    /\ syncPc = "returned" =>
          result.eventsCreated + result.eventsFailed = Len(timetableEvents)

\* 7 events, only event #4 fails
C2_Witness ==
    /\ syncPc = "returned"
    /\ Len(timetableEvents) = 7
    /\ FailedIds = {4}
    /\ result.eventsCreated = 6 /\ result.eventsFailed = 1
    /\ Len(result.errors) = 1 /\ result.errors[1].eventId = 4
    /\ result.success = FALSE

\* C3: the returned SyncResult has success = TRUE exactly when no event
\* failed in the whole run, the empty event list included.
C3_SuccessIffNoFailure ==
    syncPc = "returned" =>
        /\ result.success = (result.eventsFailed = 0)
        /\ result.success = (FailedIds = {})

\* the run over the empty list returns success
C3_Witness ==
    /\ syncPc = "returned"
    /\ Len(timetableEvents) = 0
    /\ result.success = TRUE

\* C4 (state part): a callback of a later batch has started, or its
\* create-event call has been issued, only if every call of every earlier
\* batch has settled.
Started(id) == task[id] # "pending" \/ attempts[id] > 0
C4_EarlierBatchesSettled ==
    syncPc \in {"batch", "delay", "returned"} =>
        \A b \in 1..Len(batches) :
            (\E id \in BatchIds(batches[b]) : Started(id)) =>
                \A a \in 1..(b - 1) : BatchAllSettledAt(a)

\* C4: batches run strictly in sequence: no create-event call of batch N+1
\* is issued before every call of batch N has settled, and the loop moves
\* to the next batch only out of the inter-batch delay.
C4_BatchesInSequence ==
    /\ []C4_EarlierBatchesSettled
    /\ [][batchIndex' # batchIndex =>
            /\ syncPc = "delay"
            /\ BatchAllSettled(CurrentBatch)
            /\ batchIndex' = batchIndex + 1]_vars

\* a call of the second batch is in flight after a failure in the first
C4_Witness ==
    /\ syncPc = "batch"
    /\ batchIndex = 1
    /\ task[6] = "fetch"
    /\ task[5] = "fail"

\* C5: the batches are the mapped events in their order, cut into chunks of
\* exactly batchSize (5) events but for a shorter, non-empty last one, and
\* at most 5 create-event calls are in flight at any moment.
C5_BatchesOfFive ==
    /\ syncPc \in {"batch", "delay", "returned"} =>
          /\ Flatten(batches) = CalendarEvents
          /\ \A b \in 1..Len(batches) :
                /\ Len(batches[b]) >= 1
                /\ Len(batches[b]) <= 5
                /\ b < Len(batches) => Len(batches[b]) = 5
    /\ Cardinality({id \in Ids : InFlight(id)}) <= 5

\* two batches, the last one shorter, and five calls in flight at once
C5_Witness ==
    /\ Len(batches) = 2
    /\ Len(batches[1]) = 5 /\ Len(batches[2]) = 2
    /\ Cardinality({id \in Ids : InFlight(id)}) = 5

\* C6 (syncEvents): when getValidAccessToken throws for lack of a valid
\* token, syncEvents throws to its caller and returns no SyncResult, so a
\* returned result never carries a token failure.
C6_NoTokenAbortsSync ==
    syncPc = "returned" =>
        \A k \in 1..Len(result.errors) : result.errors[k].error # "auth"

(***************************************************************************)
(* AI Parser/Enhancer: llm-parser.ts.                                      *)
(*                                                                         *)
(* A provider response is kept by its kind; the content of a 2xx response  *)
(* is a text that may be wrapped in ``` fences around a body, and the body *)
(* is what JSON.parse makes of it.                                         *)
(***************************************************************************)
NoId == [src |-> "", n |-> 0]                \* event.id missing
DefaultAITime == << <<9, 0>>, <<10, 0>> >>   \* '09:00 - 10:00'

ValidTypes == {"lecture", "lab", "tutorial", "meeting", "break"}

\* String.toLowerCase and String.includes on the type strings of the model
ToLowerCase(str) ==
    CASE str = "LAB" -> "lab"
      [] str = "Lab Session" -> "lab session"
      [] OTHER -> str
Includes(str, word) == str = word \/ (str = "lab session" /\ word = "lab")

\* validateEventType; "" stands for a missing type
ValidateEventType(type) ==
    LET normalizedType == ToLowerCase(type)
    IN  IF type = "" THEN "lecture"
        ELSE IF normalizedType \in ValidTypes THEN normalizedType
        ELSE IF Includes(normalizedType, "lab") THEN "lab"
        ELSE IF Includes(normalizedType, "tutorial")
                \/ Includes(normalizedType, "seminar") THEN "tutorial"
        ELSE IF Includes(normalizedType, "meeting") THEN "meeting"
        ELSE IF Includes(normalizedType, "break") THEN "break"
        ELSE "lecture"

\* content.replace(/```json\n?/g, '').replace(/```\n?/g, '').trim()
CleanContent(content) == [content EXCEPT !.fenced = FALSE]

\* JSON.parse throws a SyntaxError
JSONParseThrows(text) == text.fenced \/ text.body.json = "invalid"

\* a catch result of the parse path that keeps the confidence of a guess
ParseFailureGuess(msg) ==
    [success |-> FALSE, events |-> JArray(<<>>), confidence |-> 75,
     errors |-> <<msg>>]

\* the catch results of parseFile, parseWithOpenAI/Gemini, parseJSONResponse
ParseFailure(msg) ==
    [success |-> FALSE, events |-> JArray(<<>>), confidence |-> 0,
     errors |-> <<msg>>]

\* a catch of the enhancement path handing back events [] like the parse path
EnhanceFailureEmpty(originalEvents, msg) ==
    [success |-> FALSE, events |-> JArray(<<>>), confidence |-> 70,
     errors |-> <<msg>>]

\* the catch results of enhanceEvents, enhanceWithOpenAI/Gemini and
\* parseEnhancementResponse: the original events, confidence 70
EnhanceFailure(originalEvents, msg) ==
    [success |-> FALSE, events |-> JArray(originalEvents), confidence |-> 70,
     errors |-> <<msg>>]

\* one element of validatedEvents (index is 0-based)
ValidateEvent(event, index) ==
    [id |-> IF event.id = NoId THEN [src |-> "llm-parsed", n |-> index]
            ELSE event.id,
     title |-> IF event.title = "" THEN "Untitled Event" ELSE event.title,
     time |-> IF event.time = <<>> THEN DefaultAITime ELSE event.time,
     type |-> ValidateEventType(event.type)]

ParseJSONResponse(content) ==
    LET clean == CleanContent(content)
        parsed == clean.body
        events == IF Truthy(parsed.events) THEN parsed.events ELSE JArray(<<>>)
        confidence == IF parsed.confidence # 0 THEN parsed.confidence ELSE 75
    IN  IF JSONParseThrows(clean) THEN ParseFailure("JSON parsing failed")
        ELSE IF parsed.json = "null"        \* TypeError: parsed.events of null
        THEN ParseFailure("JSON parsing failed")
        ELSE IF events.t # "array"          \* 'Events is not an array'
        THEN ParseFailure("JSON parsing failed")
        ELSE IF \E i \in 1..Len(events.v) : events.v[i] = NullEvent
        THEN ParseFailure("JSON parsing failed")    \* TypeError in the map
        ELSE [success |-> TRUE,
              events |-> JArray([i \in 1..Len(events.v) |->
                                    ValidateEvent(events.v[i], i - 1)]),
              confidence |-> confidence,
              errors |-> <<>>]

ParseEnhancementResponse(content, originalEvents) ==
    LET clean == CleanContent(content)
        parsed == clean.body
        enhancedEvents == IF Truthy(parsed.enhancedEvents)
                          THEN parsed.enhancedEvents
                          ELSE JArray(originalEvents)
        confidence == IF parsed.confidence # 0 THEN parsed.confidence ELSE 80
    IN  IF JSONParseThrows(clean) \/ parsed.json = "null"
        THEN EnhanceFailure(originalEvents, "Enhancement parsing failed")
        ELSE [success |-> TRUE, events |-> enhancedEvents,
              confidence |-> confidence, errors |-> <<>>]

\* the ways a provider call ends without a content to parse
FailureKinds ==
    {"network_error", "http_error", "body_not_json", "body_without_choices",
     "no_content"}

ParseWithOpenAI(resp) ==
    CASE resp.kind = "network_error" -> ParseFailure("fetch failed")
      [] resp.kind = "http_error" -> ParseFailure("OpenAI API error")
      [] resp.kind = "body_not_json" -> ParseFailure("Unexpected token")
      [] resp.kind = "body_without_choices" -> ParseFailure("TypeError")
      [] resp.kind = "no_content" -> ParseFailure("No response from OpenAI")
      [] OTHER -> ParseJSONResponse(resp.content)

ParseWithGemini(resp) ==
    CASE resp.kind = "network_error" -> ParseFailure("fetch failed")
      [] resp.kind = "http_error" -> ParseFailure("Gemini API error")
      [] resp.kind = "body_not_json" -> ParseFailure("Unexpected token")
      [] resp.kind = "body_without_choices" -> ParseFailure("No response from Gemini")
      [] resp.kind = "no_content" -> ParseFailure("No response from Gemini")
      [] OTHER -> ParseJSONResponse(resp.content)

EnhanceWithOpenAI(resp, originalEvents) ==
    CASE resp.kind = "network_error" -> EnhanceFailure(originalEvents, "fetch failed")
      [] resp.kind = "http_error" -> EnhanceFailure(originalEvents, "OpenAI API error")
      [] resp.kind = "body_not_json" -> EnhanceFailure(originalEvents, "Unexpected token")
      [] resp.kind = "body_without_choices" -> EnhanceFailure(originalEvents, "TypeError")
      [] resp.kind = "no_content" -> EnhanceFailure(originalEvents, "No response from OpenAI")
      [] OTHER -> ParseEnhancementResponse(resp.content, originalEvents)

EnhanceWithGemini(resp, originalEvents) ==
    CASE resp.kind = "network_error" -> EnhanceFailure(originalEvents, "fetch failed")
      [] resp.kind = "http_error" -> EnhanceFailure(originalEvents, "Gemini API error")
      [] resp.kind = "body_not_json" -> EnhanceFailure(originalEvents, "Unexpected token")
      [] resp.kind = "body_without_choices" ->
            EnhanceFailure(originalEvents, "No response from Gemini")
      [] resp.kind = "no_content" -> EnhanceFailure(originalEvents, "No response from Gemini")
      [] OTHER -> ParseEnhancementResponse(resp.content, originalEvents)

\* enhanceEvents(events, rawData), given the provider's answer
EnhanceEvents(provider, events, resp) ==
    IF provider = "openai" THEN EnhanceWithOpenAI(resp, events)
    ELSE EnhanceWithGemini(resp, events)

\* parseFile(file) once the content is extracted, given the provider's answer
ParseWithProvider(provider, resp) ==
    IF provider = "openai" THEN ParseWithOpenAI(resp)
    ELSE ParseWithGemini(resp)

\* extractFileContent by file.type: read as text, simulated OCR / PDF text,
\* or 'Unsupported file type' thrown at once
ExtractOutcomes(file) ==
    CASE file \in {"csv", "text"} -> {"ok", "read_error"}
      [] file \in {"image", "pdf"} -> {"ok"}
      [] OTHER -> {"unsupported"}

(***************************************************************************)
(* Structured Parser as the orchestrator sees it: part_002 parseFile.      *)
(***************************************************************************)
FileKinds == {"csv", "excel", "text", "image", "pdf", "unknown"}

\* a detection that takes whatever it cannot classify for text
DetectFileTypeLenient(file) ==
    CASE file = "csv" -> "csv"
      [] file = "excel" -> "excel"
      [] OTHER -> "text"

DetectFileType(file) ==
    CASE file = "csv" -> "csv"
      [] file = "excel" -> "excel"
      [] file = "text" -> "text"
      [] OTHER -> "unknown"

LocalTitles == <<"Algorithms", "Databases", "Networks", "Compilers">>

\* the event mapRowToEvent makes of the row with index i - 1
LocalEvent(i) ==
    [id |-> [src |-> "local-parsed", n |-> i - 1], title |-> LocalTitles[i],
     time |-> GoodTime, type |-> "lecture"]

LocalEventLists == {[i \in 1..n |-> LocalEvent(i)] : n \in 0..MaxRows}

\* the default branch of parseFile's switch
UnsupportedResult ==
    [success |-> FALSE, events |-> <<>>,
     errors |-> <<"Unsupported file type">>, format |-> "unknown"]

\* the LocalParseResult values parseFile resolves with: success with the
\* converted rows (none when every row was dropped), or a failure, which
\* always carries events: []
LocalParseOutcomes(file) ==
    LET format == DetectFileType(file)
    IN  IF format = "unknown"
        THEN {UnsupportedResult}
        ELSE {[success |-> TRUE, events |-> es, errors |-> <<>>,
               format |-> format] : es \in LocalEventLists}
             \cup {[success |-> FALSE, events |-> <<>>,
                    errors |-> <<"Failed to parse file">>, format |-> format]}

(***************************************************************************)
(* What the AI provider may answer.                                        *)
(***************************************************************************)
CleanedEvents(events) ==
    [i \in 1..Len(events) |-> [events[i] EXCEPT !.title = "Cleaned Title"]]

\* the events handed back with a type and a time of the provider's own
\* wording: type 'seminar', time '09:00'
RewordedEvents(events) ==
    [i \in 1..Len(events) |->
        [events[i] EXCEPT !.type = "seminar", !.time = SingleTime]]

EnhancedSamples(events) ==
    {Undefined, JString, JArray(<<>>), JArray(<<NullEvent>>),
     JArray(CleanedEvents(events)), JArray(RewordedEvents(events))}

RawFull ==
    [id |-> [src |-> "given", n |-> 1], title |-> "Machine Learning",
     time |-> GoodTime, type |-> "Lab Session"]
RawBare == [id |-> NoId, title |-> "", time |-> <<>>, type |-> ""]

RawSingle == [RawFull EXCEPT !.time = SingleTime]

ParsedSamples ==
    {Undefined, JString, JArray(<<>>), JArray(<<NullEvent>>),
     JArray(<<RawFull>>), JArray(<<RawFull, RawBare>>),
     JArray(<<RawSingle>>), JArray(<<RawFull, RawFull>>)}

EnhanceBodies(events) ==
    {[json |-> "invalid"], [json |-> "null"]}
    \cup {[json |-> "object", events |-> Undefined, enhancedEvents |-> v,
           confidence |-> c] : v \in EnhancedSamples(events), c \in {0, 85}}

ParseBodies ==
    {[json |-> "invalid"], [json |-> "null"]}
    \cup {[json |-> "object", events |-> v, enhancedEvents |-> Undefined,
           confidence |-> c] : v \in ParsedSamples, c \in {0, 85}}

Responses(bodies) ==
    {[kind |-> k] : k \in FailureKinds}
    \cup {[kind |-> "content", content |-> [fenced |-> f, body |-> b]] :
             f \in BOOLEAN, b \in bodies}

(***************************************************************************)
(* Parse Orchestrator: part_003 UploadPage.handleFile.                     *)
(***************************************************************************)
MockEvents ==
    << [id |-> [src |-> "mock", n |-> 1], title |-> "Advanced Algorithms",
        time |-> << <<9, 0>>, <<10, 30>> >>, type |-> "lecture"],
       [id |-> [src |-> "mock", n |-> 2], title |-> "Database Systems Lab",
        time |-> << <<11, 0>>, <<12, 30>> >>, type |-> "lab"],
       [id |-> [src |-> "mock", n |-> 3], title |-> "Machine Learning",
        time |-> << <<14, 0>>, <<15, 30>> >>, type |-> "lecture"],
       [id |-> [src |-> "mock", n |-> 4], title |-> "Software Engineering",
        time |-> << <<10, 0>>, <<11, 30>> >>, type |-> "tutorial"] >>

MockResult ==
    [success |-> TRUE, events |-> JArray(MockEvents), confidence |-> 85,
     errors |-> <<>>]

\* events.map(e => e.id) throws: events is no array, or holds a null
MapIdsThrows(events) ==
    \/ events.t # "array"
    \/ \E i \in 1..Len(events.v) : events.v[i] = NullEvent

\* new Set(events.map(e => e.id))
IdsOf(events) == {events.v[i].id : i \in 1..Len(events.v)}

\* the local events shown before the enhancement call left out
AdoptNothing(localResult) == parsedEvents

\* setParsedEvents(localResult.events) before the enhancement call
AdoptLocal(localResult) == JArray(localResult.events)

\* the timer callback setting the mock result but not the event list
UseMockResultOnly ==
    /\ parseResult' = MockResult
    /\ selectedEvents' = IdsOf(JArray(MockEvents))
    /\ processingStep' = "complete"
    /\ parseStatus' = "completed"
    /\ UNCHANGED parsedEvents

\* the timer callback leaving out setParseStatus('completed')
UseMockDataStuck ==
    /\ parseResult' = MockResult
    /\ parsedEvents' = JArray(MockEvents)
    /\ selectedEvents' = IdsOf(JArray(MockEvents))
    /\ processingStep' = "complete"
    /\ UNCHANGED parseStatus

\* the body of the setTimeout callbacks of the mock fallback
UseMockData ==
    /\ parseResult' = MockResult
    /\ parsedEvents' = JArray(MockEvents)
    /\ selectedEvents' = IdsOf(JArray(MockEvents))
    /\ processingStep' = "complete"
    /\ parseStatus' = "completed"

\* the provider call repeated once when it is issued
IssueRequestTwice == requests' = requests + 2

\* the one fetch of parseWithOpenAI/Gemini and enhanceWithOpenAI/Gemini
IssueRequest == requests' = requests + 1

\* handleFile(file) up to its first await. The upload area is rendered only
\* while parseStatus is 'idle'.
HandleFile(file) ==
    /\ filePc = "idle"
    /\ parseStatus = "idle"
    /\ uploadedFile' = file
    /\ parseStatus' = "processing"
    /\ parseResult' = NoResult
    /\ localParseResult' = NoResult
    /\ processingStep' = "local"
    /\ filePc' = "local"
    /\ UNCHANGED <<llm, parsedEvents, selectedEvents, aiResult, response,
                   mockTimer, requests>>
    /\ UNCHANGED syncVars
    /\ UNCHANGED calVars
    /\ UNCHANGED <<authVars, fnVars>>

\* localParser.parseFile(file) resolves; handleFile runs on to its next
\* await: the provider request of enhanceEvents, the content extraction of
\* parseFile, or its end.
LocalParseSettles(localResult) ==
    /\ filePc = "local"
    /\ localResult \in LocalParseOutcomes(uploadedFile)
    /\ localParseResult' = localResult
    /\ IF localResult.success /\ Len(localResult.events) > 0
       THEN /\ parsedEvents' = AdoptLocal(localResult)
            /\ selectedEvents' = IdsOf(JArray(localResult.events))
            /\ IF llm # "none"
               THEN /\ processingStep' = "ai"
                    /\ IssueRequest
                    /\ filePc' = "enhance"
                    /\ UNCHANGED parseStatus
               ELSE /\ processingStep' = "complete"
                    /\ parseStatus' = "completed"
                    /\ filePc' = "done"
                    /\ UNCHANGED requests
            /\ UNCHANGED <<parseResult, aiResult, mockTimer>>
       ELSE /\ processingStep' = "ai"
            /\ IF llm = "none"
               THEN /\ mockTimer' = TRUE
                    /\ filePc' = "done"
                    /\ UNCHANGED <<parseResult, aiResult>>
               ELSE IF ExtractOutcomes(uploadedFile) = {"unsupported"}
               THEN /\ aiResult' = ParseFailure("Unsupported file type")
                    /\ parseResult' = ParseFailure("Unsupported file type")
                    /\ mockTimer' = TRUE
                    /\ filePc' = "done"
               ELSE /\ filePc' = "extract"
                    /\ UNCHANGED <<parseResult, aiResult, mockTimer>>
            /\ UNCHANGED <<parsedEvents, selectedEvents, parseStatus, requests>>
    /\ UNCHANGED <<llm, uploadedFile, response>>
    /\ UNCHANGED syncVars
    /\ UNCHANGED calVars
    /\ UNCHANGED <<authVars, fnVars>>

\* the provider answers the enhancement request: enhanceEvents resolves and
\* handleFile runs to its end.
EnhanceSettles ==
    /\ filePc = "enhance"
    /\ \E resp \in Responses(EnhanceBodies(localParseResult.events)) :
          LET enhancedResult ==
                  EnhanceEvents(llm, localParseResult.events, resp)
          IN  /\ response' = resp
              /\ parseResult' = enhancedResult
              /\ IF enhancedResult.success
                 THEN /\ parsedEvents' = enhancedResult.events
                      /\ selectedEvents' =
                            IF MapIdsThrows(enhancedResult.events)
                            THEN selectedEvents     \* TypeError, caught at 154
                            ELSE IdsOf(enhancedResult.events)
                 ELSE UNCHANGED <<parsedEvents, selectedEvents>>
    /\ processingStep' = "complete"
    /\ parseStatus' = "completed"
    /\ filePc' = "done"
    /\ UNCHANGED <<llm, localParseResult, uploadedFile, aiResult, mockTimer,
                   requests>>
    /\ UNCHANGED syncVars
    /\ UNCHANGED calVars
    /\ UNCHANGED <<authVars, fnVars>>

\* extractFileContent of parseFile settles: the provider request is issued,
\* or the read failed and parseFile resolves with its failure result.
ExtractSettles(outcome) ==
    /\ filePc = "extract"
    /\ outcome \in ExtractOutcomes(uploadedFile)
    /\ IF outcome = "ok"
       THEN /\ IssueRequest
            /\ filePc' = "aiparse"
            /\ UNCHANGED <<parseResult, aiResult, mockTimer>>
       ELSE /\ aiResult' = ParseFailure("Failed to read file")
            /\ parseResult' = ParseFailure("Failed to read file")
            /\ mockTimer' = TRUE
            /\ filePc' = "done"
            /\ UNCHANGED requests
    /\ UNCHANGED <<llm, parseStatus, processingStep, parsedEvents,
                   selectedEvents, localParseResult, uploadedFile, response>>
    /\ UNCHANGED syncVars
    /\ UNCHANGED calVars
    /\ UNCHANGED <<authVars, fnVars>>

\* the provider answers the parse request: parseFile resolves and handleFile
\* runs to its end, or into the catch that sets the mock timer.
AIParseSettles(resp) ==
    /\ filePc = "aiparse"
    /\ resp \in Responses(ParseBodies)
    /\ response' = resp
    /\ LET r == ParseWithProvider(llm, resp)
       IN  /\ aiResult' = r
           /\ parseResult' = r
           /\ IF r.success
              THEN /\ parsedEvents' = r.events
                   /\ selectedEvents' = IdsOf(r.events)
                   /\ processingStep' = "complete"
                   /\ parseStatus' = "completed"
                   /\ UNCHANGED mockTimer
              ELSE /\ mockTimer' = TRUE
                   /\ UNCHANGED <<parsedEvents, selectedEvents, processingStep,
                                  parseStatus>>
    /\ filePc' = "done"
    /\ UNCHANGED <<llm, localParseResult, uploadedFile, requests>>
    /\ UNCHANGED syncVars
    /\ UNCHANGED calVars
    /\ UNCHANGED <<authVars, fnVars>>

\* the setTimeout(..., 1000) of the mock fallback fires
MockTimerFires ==
    /\ mockTimer
    /\ mockTimer' = FALSE
    /\ UseMockData
    /\ UNCHANGED <<llm, filePc, localParseResult, uploadedFile, aiResult,
                   response, requests>>
    /\ UNCHANGED syncVars
    /\ UNCHANGED calVars
    /\ UNCHANGED <<authVars, fnVars>>

\* 'Upload Different File' of the completed view; the finished run's locals
\* are gone with it.
UploadDifferentFile ==
    /\ parseStatus = "completed"
    /\ filePc = "done"
    /\ filePc' = "idle"
    /\ parseStatus' = "idle"
    /\ processingStep' = "local"
    /\ parsedEvents' = JArray(<<>>)
    /\ selectedEvents' = {}
    /\ parseResult' = NoResult
    /\ localParseResult' = NoResult
    /\ uploadedFile' = "none"
    /\ aiResult' = NoResult
    /\ response' = NoResponse
    /\ mockTimer' = FALSE
    /\ requests' = 0
    /\ UNCHANGED llm
    /\ UNCHANGED syncVars
    /\ UNCHANGED calVars
    /\ UNCHANGED <<authVars, fnVars>>

InitParse ==
    /\ llm \in {"none", "openai", "gemini"}
    /\ ParseIdle
    /\ tokens = "none"
    /\ timetableEvents = <<>>
    /\ syncPc = "idle"
    /\ batches = <<>>
    /\ batchIndex = 0
    /\ task = <<>>
    /\ attempts = <<>>
    /\ result = NewSyncResult
    /\ progress = <<>>
    /\ CalIdle
    /\ AuthIdle
    /\ FnIdle

NextParse ==
    \/ \E file \in FileKinds : HandleFile(file)
    \/ \E localResult \in LocalParseOutcomes(uploadedFile) :
          LocalParseSettles(localResult)
    \/ EnhanceSettles
    \/ \E outcome \in ExtractOutcomes(uploadedFile) : ExtractSettles(outcome)
    \/ \E resp \in Responses(ParseBodies) : AIParseSettles(resp)
    \/ MockTimerFires
    \/ UploadDifferentFile

SpecParse == InitParse /\ [][NextParse]_vars

\* the steps that are not the user's: a parser, extraction or provider call
\* settles, or the mock timer fires
ParseCallSettles ==
    \/ \E localResult \in LocalParseOutcomes(uploadedFile) :
          LocalParseSettles(localResult)
    \/ EnhanceSettles
    \/ \E outcome \in ExtractOutcomes(uploadedFile) : ExtractSettles(outcome)
    \/ \E resp \in Responses(ParseBodies) : AIParseSettles(resp)
    \/ MockTimerFires

\* every call settles and every timer fires
SpecParseFair == SpecParse /\ WF_vars(ParseCallSettles)

(***************************************************************************)
(* Properties of the parse orchestrator, checked under SpecParse.          *)
(***************************************************************************)
\* the run is over: handleFile returned and no mock timer is pending
RunEnded == filePc = "done" /\ ~mockTimer

\* the structured parser yielded at least one event / yielded none
LocalYielded ==
    /\ localParseResult # NoResult
    /\ localParseResult.success
    /\ Len(localParseResult.events) > 0
LocalYieldedNone ==
    /\ localParseResult # NoResult
    /\ ~(localParseResult.success /\ Len(localParseResult.events) > 0)

\* an event set the review screen can show: an array of events, not empty
Reviewable(events) ==
    /\ events.t = "array"
    /\ Len(events.v) > 0
    /\ \A i \in 1..Len(events.v) : events.v[i] # NullEvent

\* C7 (handleFile): every run that does not end in the error state ends in
\* the completed state with a non-empty reviewable event set, whatever the
\* local parser and the AI provider return.
C7_NeverDeadEnd ==
    (RunEnded /\ parseStatus # "error") =>
        parseStatus = "completed" /\ Reviewable(parsedEvents)

C9_MockFallback ==
    RunEnded /\ LocalYieldedNone =>
        /\ llm # "none" => aiResult # NoResult
        /\ llm = "none" => aiResult = NoResult /\ requests = 0
        /\ (llm = "none" \/ ~aiResult.success) =>
              /\ parseStatus = "completed"
              /\ processingStep = "complete"
              /\ parsedEvents = JArray(MockEvents)
              /\ parseResult = MockResult
              /\ selectedEvents = IdsOf(JArray(MockEvents))

\* the provider answered the parse request with something parseJSONResponse
\* rejects, and the run ended on the demonstration dataset
C9_Witness ==
    /\ RunEnded /\ LocalYieldedNone
    /\ llm # "none"
    /\ response.kind = "content"
    /\ ~aiResult.success
    /\ parseStatus = "completed"
    /\ parsedEvents = JArray(MockEvents)

\* the provider call of enhanceEvents threw, answered non-2xx, or answered
\* with a content that is no valid JSON
EnhanceCallFailed ==
    /\ LocalYielded
    /\ \/ response.kind \in {"network_error", "http_error"}
       \/ response.kind = "content" /\ response.content.body.json = "invalid"

\* C10 (enhanceEvents): when the provider call throws, answers non-2xx, or
\* answers with a content that is no valid JSON, enhanceEvents returns a
\* result with success = false, the input events unchanged and in order,
\* and confidence 70.
C10_EnhanceFailureReturnsInput ==
    EnhanceCallFailed =>
        /\ parseResult # NoResult
        /\ parseResult.success = FALSE
        /\ parseResult.events = JArray(localParseResult.events)
        /\ parseResult.confidence = 70

\* a fenced content that is no JSON came back for a list of MaxRows events
C10_Witness ==
    /\ EnhanceCallFailed
    /\ response.kind = "content"
    /\ response.content.fenced
    /\ Len(localParseResult.events) = MaxRows
    /\ parseResult.events = JArray(localParseResult.events)
    /\ parseResult.confidence = 70

\* the provider call of parseFile threw, answered non-2xx, answered without
\* content, with a content that is no valid JSON, or with events that is no
\* array
ParseCallFailed ==
    /\ LocalYieldedNone
    /\ \/ response.kind \in {"network_error", "http_error", "no_content"}
       \/ /\ response.kind = "content"
          /\ \/ response.content.body.json = "invalid"
             \/ /\ response.content.body.json = "object"
                /\ response.content.body.events = JString

C12_ProgressPerEventStart ==
    /\ \A k \in 1..Len(progress) :
          k <= Len(timetableEvents) =>
             progress[k] = [completed |-> k - 1,
                            total |-> Len(timetableEvents),
                            currentEvent |-> timetableEvents[k].title]
    /\ \A id \in Ids :
          attempts[id] > 0 \/ task[id] # "pending" => Len(progress) >= id
    /\ syncPc = "returned" => Len(progress) >= Len(timetableEvents)

\* the progress of event 7 (completed = 6) is reported while its 200 ms
\* delay runs and no earlier call of its batch has settled
C12_Witness ==
    /\ Len(timetableEvents) = 7
    /\ Len(progress) = 7
    /\ progress[7].completed = 6
    /\ task[7] = "delay" /\ attempts[7] = 0
    /\ InFlight(6)

\* C13 (syncEvents): after all batches, one final onProgress call with
\* completed = total is made; it is the last call of the run and is made
\* only when every create-event call has settled.
C13_FinalProgress ==
    /\ \A k \in 1..Len(progress) :
          progress[k].completed = progress[k].total =>
             /\ k = Len(progress)
             /\ syncPc = "returned"
             /\ \A id \in Ids : Settled(id)
    /\ syncPc = "returned" =>
          /\ Len(progress) = Len(timetableEvents) + 1
          /\ progress[Len(progress)] =
                [completed |-> Len(timetableEvents),
                 total |-> Len(timetableEvents),
                 currentEvent |-> "Sync completed"]

\* a two-batch run with a failure has returned after its final call
C13_Witness ==
    /\ syncPc = "returned"
    /\ Len(batches) = 2
    /\ result.eventsFailed > 0
    /\ progress[Len(progress)].completed = Len(timetableEvents)

\* C14 (syncEvents): when the SyncResult is returned no create-event call
\* of the run is in flight or still to come, and from then on its counters
\* and its errors list do not change.
C14_ReturnedResultIsFinal ==
    /\ [](syncPc = "returned" =>
            /\ \A id \in Ids : Settled(id) /\ attempts[id] = 1
            /\ ~ENABLED NextSync)
    /\ [][syncPc = "returned" => result' = result]_vars

\* a run of six events returned with created and failed events
C14_Witness ==
    /\ syncPc = "returned"
    /\ Len(timetableEvents) = 6
    /\ result.eventsCreated = 4
    /\ result.eventsFailed = 2

\* C15 (getValidAccessToken): while the stored token is expired, the
\* re-authentications of concurrent callers are serialized: at most one is
\* in flight at any time.
C15_RefreshSerialized ==
    Cardinality({id \in Ids : task[id] = "reauth"}) <= 1

(***************************************************************************)
(* Calendar Gateway: part_001 checkExistingEvents and deleteEvent.         *)
(*                                                                         *)
(* Times are minutes (NaN for a string Date cannot read).  calResponse     *)
(* keeps what ended the token step or the fetch of the call under way.     *)
(***************************************************************************)
MaxCalEvents == 2

Infinity == 1000000             \* Math.min() / Math.max() of no argument
NoDateTime == Infinity + 1      \* existing.start?.dateTime of an all-day event

CalTitles == <<"Algorithms", "Databases", "Networks">>
CalTimes == {<<540, 630>>, <<NaN, 630>>, <<660, NaN>>}

\* the CalendarEvent lists handed to checkExistingEvents: ids are positions
CalEventLists ==
    UNION {{[i \in 1..n |-> [id |-> i, title |-> CalTitles[i],
                              startTime |-> t[i][1], endTime |-> t[i][2]]]
            : t \in [1..n -> CalTimes]} : n \in 0..MaxCalEvents}

\* Math.min(...xs) and Math.max(...xs) of JavaScript
MathMin(xs) ==
    IF Len(xs) = 0 THEN Infinity
    ELSE IF \E i \in 1..Len(xs) : xs[i] = NaN THEN NaN
    ELSE CHOOSE x \in Range(xs) : \A y \in Range(xs) : x <= y
MathMax(xs) ==
    IF Len(xs) = 0 THEN 0 - Infinity
    ELSE IF \E i \in 1..Len(xs) : xs[i] = NaN THEN NaN
    ELSE CHOOSE x \in Range(xs) : \A y \in Range(xs) : x >= y

\* new Date(t).toISOString() throws a RangeError on an Invalid Date
ToISOStringThrows(t) == t = NaN \/ t = Infinity \/ t = 0 - Infinity

\* startDate.toISOString() or endDate.toISOString() throws
DateRangeThrows(events) ==
    \/ ToISOStringThrows(MathMin([i \in 1..Len(events) |-> events[i].startTime]))
    \/ ToISOStringThrows(MathMax([i \in 1..Len(events) |-> events[i].endTime]))

\* response.ok
ResponseOk(status) == status >= 200 /\ status <= 299

StatusSamples == {200, 204, 403, 404, 410, 500}

\* existing.summary === newEvent.title && existing.start?.dateTime === newEvent.startTime
SameEvent(existing, newEvent) ==
    existing.summary = newEvent.title /\ existing.dateTime = newEvent.startTime

\* existingEvents.some(...) reads .summary of a null item before any match
SomeThrows(items, newEvent) ==
    \E k \in 1..Len(items) :
        /\ items[k] = NullEvent
        /\ \A j \in 1..(k - 1) : ~SameEvent(items[j], newEvent)

\* data.items || []
ItemsOf(body) == IF Truthy(body.items) THEN body.items.v ELSE <<>>

\* the filter over events throws a TypeError
FilterThrows(events, body) ==
    \E i \in 1..Len(events) : SomeThrows(ItemsOf(body), events[i])

\* events.filter(... existingEvents.some(...)).map(event => event.id)
ExistingIds(events, body) ==
    LET items == ItemsOf(body)
        Exists(newEvent) ==
            \E k \in 1..Len(items) : SameEvent(items[k], newEvent)
        found == SelectSeq(events, Exists)
    IN  [i \in 1..Len(found) |-> found[i].id]

\* what the calendar may hold for a request about events
ExistingOf(ev) == [summary |-> ev.title, dateTime |-> ev.startTime]
ItemSamples(events) ==
    {Undefined, JArray(<<>>), JArray(<<NullEvent>>)}
    \cup {JArray(<<ExistingOf(events[i])>>) : i \in 1..Len(events)}
    \cup {JArray(<<[ExistingOf(events[i]) EXCEPT !.dateTime = NoDateTime]>>) :
             i \in 1..Len(events)}
    \cup {JArray(<<ExistingOf(events[i]), NullEvent>>) : i \in 1..Len(events)}
    \cup {JArray([i \in 1..Len(events) |-> ExistingOf(events[i])])}

\* the ways the GET of checkExistingEvents settles
CheckResponses(events) ==
    {[kind |-> "network_error"]}
    \cup {[kind |-> "http", status |-> st, body |-> [json |-> "invalid"]] :
             st \in StatusSamples}
    \cup {[kind |-> "http", status |-> 200,
           body |-> [json |-> "object", items |-> it]] :
             it \in ItemSamples(events)}

\* the ways the DELETE of deleteEvent settles
DeleteResponses ==
    {[kind |-> "network_error"]}
    \cup {[kind |-> "http", status |-> st] : st \in StatusSamples}

\* checkExistingEvents without its catch: the error reaches the caller
OnCheckFailureRethrown(cause) ==
    /\ calPc' = "done"
    /\ calResponse' = cause
    /\ calOutcome' = [kind |-> "thrown"]

\* the catch of checkExistingEvents: return []
OnCheckFailure(cause) ==
    /\ calPc' = "done"
    /\ calResponse' = cause
    /\ calOutcome' = [kind |-> "returned", ids |-> <<>>]

\* the catch of deleteEvent: throw new Error('Failed to delete event: ...')
OnDeleteFailure(cause) ==
    /\ calPc' = "done"
    /\ calResponse' = cause
    /\ calOutcome' = [kind |-> "thrown"]

\* deleteEvent taking only a 2xx answer for a success
DeleteSucceedsOnlyOk(status) == ResponseOk(status)

\* the negation of (!response.ok && response.status !== 404)
DeleteSucceeds(status) == ResponseOk(status) \/ status = 404

\* checkExistingEvents once it holds a token: the date range, then the GET
CheckAfterToken(events) ==
    IF DateRangeThrows(events)
    THEN OnCheckFailure([kind |-> "range_error"])
    ELSE /\ calPc' = "fetch"
         /\ calResponse' = [kind |-> "none"]
         /\ calOutcome' = [kind |-> "none"]

\* checkExistingEvents(calendarId, events) up to its first pending await
CheckExistingEvents(events) ==
    /\ calPc \in {"idle", "done"}
    /\ calOp' = "check"
    /\ calEvents' = events
    /\ CASE tokens = "none" -> OnCheckFailure([kind |-> "no_token"])
         [] tokens = "expired" ->
               /\ calPc' = "reauth"
               /\ calResponse' = [kind |-> "none"]
               /\ calOutcome' = [kind |-> "none"]
         [] OTHER -> CheckAfterToken(events)
    /\ UNCHANGED <<tokens, engineVars, parseVars, authVars, fnVars>>

\* deleteEvent(calendarId, eventId) up to its first pending await
DeleteEvent ==
    /\ calPc \in {"idle", "done"}
    /\ calOp' = "delete"
    /\ calEvents' = <<>>
    /\ CASE tokens = "none" -> OnDeleteFailure([kind |-> "no_token"])
         [] tokens = "expired" ->
               /\ calPc' = "reauth"
               /\ calResponse' = [kind |-> "none"]
               /\ calOutcome' = [kind |-> "none"]
         [] OTHER ->
               /\ calPc' = "fetch"
               /\ calResponse' = [kind |-> "none"]
               /\ calOutcome' = [kind |-> "none"]
    /\ UNCHANGED <<tokens, engineVars, parseVars, authVars, fnVars>>

\* authenticate() awaited by getValidAccessToken settles: the new tokens are
\* stored and the call goes on, or it rejects into the call's catch
CalAuthenticateSettles ==
    /\ calPc = "reauth"
    /\ \/ /\ tokens' = "valid"
          /\ IF calOp = "check"
             THEN CheckAfterToken(calEvents)
             ELSE /\ calPc' = "fetch"
                  /\ UNCHANGED <<calResponse, calOutcome>>
       \/ /\ UNCHANGED tokens
          /\ IF calOp = "check"
             THEN OnCheckFailure([kind |-> "auth_rejected"])
             ELSE OnDeleteFailure([kind |-> "auth_rejected"])
    /\ UNCHANGED <<calOp, calEvents, engineVars, parseVars, authVars, fnVars>>

\* the GET of checkExistingEvents settles
CheckFetchSettles(resp) ==
    /\ calOp = "check"
    /\ calPc = "fetch"
    /\ IF \/ resp.kind = "network_error"
          \/ ~ResponseOk(resp.status)
          \/ resp.body.json = "invalid"             \* response.json() rejects
          \/ FilterThrows(calEvents, resp.body)
       THEN OnCheckFailure(resp)
       ELSE /\ calPc' = "done"
            /\ calResponse' = resp
            /\ calOutcome' = [kind |-> "returned",
                              ids |-> ExistingIds(calEvents, resp.body)]
    /\ UNCHANGED <<calOp, calEvents, tokens, engineVars, parseVars, authVars, fnVars>>

\* the DELETE of deleteEvent settles
DeleteFetchSettles(resp) ==
    /\ calOp = "delete"
    /\ calPc = "fetch"
    /\ IF resp.kind = "network_error" \/ ~DeleteSucceeds(resp.status)
       THEN OnDeleteFailure(resp)
       ELSE /\ calPc' = "done"
            /\ calResponse' = resp
            /\ calOutcome' = [kind |-> "resolved"]
    /\ UNCHANGED <<calOp, calEvents, tokens, engineVars, parseVars, authVars, fnVars>>

\* the session's token state changes between two calls: it expires, the
\* user signs out, or signs in
TokenChanges(tok) ==
    /\ calPc \in {"idle", "done"}
    /\ tok # tokens
    /\ tokens' = tok
    /\ UNCHANGED <<calVars, engineVars, parseVars, authVars, fnVars>>

InitCalendar ==
    /\ tokens \in {"none", "valid", "expired"}
    /\ CalIdle
    /\ timetableEvents = <<>>
    /\ syncPc = "idle"
    /\ batches = <<>>
    /\ batchIndex = 0
    /\ task = <<>>
    /\ attempts = <<>>
    /\ result = NewSyncResult
    /\ progress = <<>>
    /\ llm = "none"
    /\ ParseIdle
    /\ AuthIdle
    /\ FnIdle

NextCalendar ==
    \/ \E events \in CalEventLists : CheckExistingEvents(events)
    \/ DeleteEvent
    \/ CalAuthenticateSettles
    \/ \E resp \in CheckResponses(calEvents) : CheckFetchSettles(resp)
    \/ \E resp \in DeleteResponses : DeleteFetchSettles(resp)
    \/ \E tok \in {"none", "valid", "expired"} : TokenChanges(tok)

SpecCalendar == InitCalendar /\ [][NextCalendar]_vars

(***************************************************************************)
(* Properties of the calendar gateway calls, checked under SpecCalendar.   *)
(***************************************************************************)
\* the check failed: no valid token, a network error or a non-2xx response
CheckFailed ==
    /\ calOp = "check"
    /\ calPc = "done"
    /\ \/ calResponse.kind \in {"no_token", "auth_rejected", "network_error"}
       \/ calResponse.kind = "http" /\ ~ResponseOk(calResponse.status)

\* C16 (checkExistingEvents): the call never throws, and when the check
\* fails for lack of a valid token, on a network error or on a non-2xx
\* response it returns the empty list.
C16_CheckNeverThrows ==
    /\ calOp = "check" => calOutcome.kind # "thrown"
    /\ calOp = "check" /\ calPc = "done" => calOutcome.kind = "returned"
    /\ CheckFailed => calOutcome = [kind |-> "returned", ids |-> <<>>]

\* a check of two events answered with 500 returned []
C16_Witness ==
    /\ CheckFailed
    /\ Len(calEvents) = MaxCalEvents
    /\ calResponse.kind = "http"
    /\ calResponse.status = 500
    /\ calOutcome = [kind |-> "returned", ids |-> <<>>]

\* C17 (deleteEvent): the call completes without error exactly when the
\* calendar answers 2xx or 404; any other response, a network error or a
\* token failure makes it throw.
C17_DeleteIdempotent ==
    calOp = "delete" /\ calPc = "done" =>
        IF calResponse.kind = "http"
           /\ (ResponseOk(calResponse.status) \/ calResponse.status = 404)
        THEN calOutcome = [kind |-> "resolved"]
        ELSE calOutcome = [kind |-> "thrown"]

\* a delete answered with 404 completed
C17_Witness ==
    /\ calOp = "delete"
    /\ calPc = "done"
    /\ calResponse.kind = "http"
    /\ calResponse.status = 404
    /\ calOutcome = [kind |-> "resolved"]

(***************************************************************************)
(* The orchestrator's state machine, checked under SpecParseFair.          *)
(***************************************************************************)
StepRank(step) ==
    CASE step = "local" -> 0
      [] step = "ai" -> 1
      [] step = "complete" -> 2

\* C18 (handleFile): within a run the processing step only moves forward
\* through local, ai, complete; a run that is over is in exactly one of
\* the outcomes completed and error; and, every call settling, each run
\* reaches such an outcome.
C18_ForwardToTerminal ==
    /\ [][parseStatus = "processing" =>
             StepRank(processingStep') >= StepRank(processingStep)]_vars
    /\ [](RunEnded => parseStatus \in {"completed", "error"})
    /\ [](parseStatus \in {"completed", "error"} => RunEnded)
    /\ (parseStatus = "processing" ~> parseStatus \in {"completed", "error"})

\* a run that went local, ai, complete on the AI-only path
C18_Witness ==
    /\ RunEnded /\ LocalYieldedNone
    /\ requests = 1
    /\ aiResult.success
    /\ processingStep = "complete"
    /\ parseStatus = "completed"

\* C19 (parseFile, handleFile): a file whose format cannot be classified
\* makes the extraction fail with the unsupported-format error, handed to
\* the caller in the result; the failed extraction is not run again and no
\* provider request is made for the file.
C19_UnsupportedFormat ==
    /\ [](uploadedFile = "unknown" /\ localParseResult # NoResult =>
             localParseResult = UnsupportedResult)
    /\ [](uploadedFile = "unknown" /\ localParseResult # NoResult
             /\ llm # "none" =>
                /\ aiResult = ParseFailure("Unsupported file type")
                /\ parseResult # NoResult
                /\ requests = 0)
    /\ [][filePc' = "local" => filePc = "idle"]_vars
    /\ [][localParseResult # NoResult /\ filePc # "done" =>
             localParseResult' = localParseResult]_vars

\* with a provider configured, both extractions of an unclassifiable file
\* failed and the run went on to the demonstration data
C19_Witness ==
    /\ uploadedFile = "unknown"
    /\ llm = "openai"
    /\ localParseResult = UnsupportedResult
    /\ aiResult = ParseFailure("Unsupported file type")
    /\ requests = 0
    /\ RunEnded

\* parseFile gave up before its request: the content could not be extracted
ExtractionFailed ==
    /\ aiResult # NoResult
    /\ aiResult.errors \in {<<"Unsupported file type">>, <<"Failed to read file">>}

C21_EventsNormalized ==
    RunEnded /\ Reviewable(parsedEvents) =>
        \A i \in 1..Len(parsedEvents.v) :
            /\ parsedEvents.v[i].type \in ValidTypes
            /\ Len(parsedEvents.v[i].time) = 2

\* C22 (handleFile): no two events of the event set handed on for sync
\* share an id.
C22_IdsUnique ==
    RunEnded /\ Reviewable(parsedEvents) =>
        \A i, j \in 1..Len(parsedEvents.v) :
            i # j => parsedEvents.v[i].id # parsedEvents.v[j].id

(***************************************************************************)
(* Structured Parser, field normalization: part_002 normalizeTime,         *)
(* convert12to24, addMinutes, calculateDuration, normalizeEventType.       *)
(*                                                                         *)
(* A time string is the sequence of its parts around ' - '; a part is a    *)
(* clock [h, m, p]: the numbers before and after ':' (NaN for text, and    *)
(* NoMinutes when there is no ':MM') and the marker that follows them      *)
(* ("" for none).                                                          *)
(***************************************************************************)
NoMinutes == -2

Clock(h, m) == [h |-> h, m |-> m, p |-> ""]
Clock12(h, m, p) == [h |-> h, m |-> m, p |-> p]

\* String.toUpperCase on the markers
ToUpperCase(p) ==
    CASE p = "am" -> "AM"
      [] p = "pm" -> "PM"
      [] OTHER -> p

\* the marker that follows the clock, and what follows that marker
\* ('PM PM' is a marker written twice)
FirstMarker(p) == IF p = "PM PM" THEN "PM" ELSE p
RestMarker(p) == IF p = "PM PM" THEN "PM" ELSE ""

\* the part matches /(\d{1,2}):?(\d{2})?\s*(AM|PM)/gi
MatchesClock12(part) ==
    /\ ToUpperCase(FirstMarker(part.p)) \in {"AM", "PM"}
    /\ part.h # NaN
    /\ part.m # NaN

\* a conversion that adds 12 to every PM hour, 12 PM included
Convert12to24Naive(part) ==
    IF ~MatchesClock12(part) THEN part
    ELSE Clock12(IF ToUpperCase(FirstMarker(part.p)) = "PM" THEN part.h + 12
                 ELSE part.h,
                 IF part.m = NoMinutes THEN 0 ELSE part.m,
                 RestMarker(part.p))

\* convert12to24 on one part of the string (the replace is global)
Convert12to24(part) ==
    IF ~MatchesClock12(part) THEN part
    ELSE LET period == ToUpperCase(FirstMarker(part.p))
             h == IF period = "PM" /\ part.h # 12 THEN part.h + 12
                  ELSE IF period = "AM" /\ part.h = 12 THEN 0
                  ELSE part.h
         IN  Clock12(h, IF part.m = NoMinutes THEN 0 ELSE part.m,
                     RestMarker(part.p))

\* timeStr.split(':').map(Number): the marker left in the string makes the
\* minutes NaN, a missing ':MM' makes them undefined
ClockNumbers(part) ==
    <<part.h, IF part.p # "" \/ part.m = NoMinutes THEN NaN ELSE part.m>>

\* addMinutes: setHours(hours, mins + minutes) on today, read back as HH:MM
\* ('NaN:NaN' for an Invalid Date)
AddMinutes(part, minutes) ==
    LET hm == ClockNumbers(part)
        total == (hm[1] * 60 + hm[2] + minutes) % 1440
    IN  IF hm[1] = NaN \/ hm[2] = NaN THEN Clock(NaN, NaN)
        ELSE Clock(total \div 60, total % 60)

\* time.includes('AM') || time.includes('PM')
IncludesMarker(time) ==
    \E i \in 1..Len(time) : time[i].p \in {"AM", "PM", "PM PM"}

NormalizeTime(time) ==
    LET converted == IF IncludesMarker(time)
                     THEN [i \in 1..Len(time) |-> Convert12to24(time[i])]
                     ELSE time
    IN  IF Len(converted) = 1       \* !time.includes(' - ')
        THEN <<converted[1], AddMinutes(converted[1], 90)>>
        ELSE converted

\* a % b of JavaScript: the sign of the dividend
JsRemainder(a, b) == IF a >= 0 THEN a % b ELSE 0 - ((0 - a) % b)

\* the three renderings of calculateDuration: 'Hh Mm', 'Hh', 'Mm'
Duration(form, hours, minutes) ==
    [form |-> form, hours |-> hours, minutes |-> minutes]
OneHourThirty == Duration("hm", 1, 30)

\* calculateDuration
CalculateDuration(time) ==
    IF Len(time) < 2 THEN OneHourThirty     \* end.split throws: the catch
    ELSE LET s == ClockNumbers(time[1])
             e == ClockNumbers(time[2])
             diffMinutes == (e[1] * 60 + e[2]) - (s[1] * 60 + s[2])
             hours == diffMinutes \div 60
             minutes == JsRemainder(diffMinutes, 60)
         IN  IF \E x \in {s[1], s[2], e[1], e[2]} : x = NaN
             THEN Duration("m", 0, NaN)      \* 'NaNm'
             ELSE IF hours > 0 /\ minutes > 0 THEN Duration("hm", hours, minutes)
             ELSE IF hours > 0 THEN Duration("h", hours, 0)
             ELSE Duration("m", 0, minutes)

\* the type strings of the model, lower-cased
TypeToLowerCase(type) ==
    CASE type = "LAB" -> "lab"
      [] type = "Lab Session" -> "lab session"
      [] type = "Seminar" -> "seminar"
      [] OTHER -> type
TypeIncludes(str, word) ==
    \/ str = word
    \/ str = "lab session" /\ word = "lab"

\* normalizeEventType
NormalizeEventType(type) ==
    LET normalized == TypeToLowerCase(type)
    IN  IF TypeIncludes(normalized, "lab") THEN "lab"
        ELSE IF TypeIncludes(normalized, "tutorial")
                \/ TypeIncludes(normalized, "seminar") THEN "tutorial"
        ELSE IF TypeIncludes(normalized, "meeting") THEN "meeting"
        ELSE IF TypeIncludes(normalized, "break") THEN "break"
        ELSE "lecture"

(***************************************************************************)
(* Structured Parser, dates: part_002 normalizeDate, getNextWeekday.       *)
(*                                                                         *)
(* A day is its number since 1970-01-01 (a Thursday); "now" is the local   *)
(* day and minute of the clock and the zone's offset from UTC in minutes.  *)
(* A date string is a weekday name, a 'YYYY-MM-DD' date (read as UTC), a   *)
(* date in another notation (read as local time), or text.                 *)
(***************************************************************************)
Weekday(day) == (day + 4) % 7

NowSamples ==
    {[day |-> d, minute |-> t, tz |-> z] :
        d \in 10..16, t \in {30, 720, 1410}, z \in {0 - 300, 0, 330}}

IsoDate(day) == [kind |-> "iso", day |-> day]
DayName(dayIndex) == [kind |-> "weekday", day |-> dayIndex]
LocalDate(day) == [kind |-> "local", day |-> day]
TextDate == [kind |-> "text", day |-> 0]

\* date.toISOString().split('T')[0] of the local day and minute: the UTC day
ToISODate(day, minute, tz) == IsoDate((day * 1440 + minute - tz) \div 1440)

\* getNextWeekday
GetNextWeekday(dayOfWeek, now) ==
    LET remainder == (dayOfWeek + 7 - Weekday(now.day)) % 7
        daysUntilTarget == IF remainder = 0 THEN 7 ELSE remainder
    IN  ToISODate(now.day + daysUntilTarget, now.minute, now.tz)

\* a normalization that reads a 'YYYY-MM-DD' date as local time too
NormalizeDateAsLocal(date, now) ==
    CASE date.kind = "weekday" -> GetNextWeekday(date.day, now)
      [] date.kind \in {"iso", "local"} -> ToISODate(date.day, 0, now.tz)
      [] OTHER -> GetNextWeekday(1, now)

\* normalizeDate
NormalizeDate(date, now) ==
    CASE date.kind = "weekday" -> GetNextWeekday(date.day, now)
      [] date.kind = "iso" -> IsoDate(date.day)
      [] date.kind = "local" -> ToISODate(date.day, 0, now.tz)
      [] OTHER -> GetNextWeekday(1, now)

(***************************************************************************)
(* Structured Parser, rows: part_002 convertRowsToEvents, mapRowToEvent,   *)
(* findValueByKeys.                                                        *)
(*                                                                         *)
(* A cell is undefined, a number, or a string with its content and its     *)
(* white space: "none", "padded" (around the content), "blank" (nothing    *)
(* else) or "empty".                                                       *)
(***************************************************************************)
MaxSheetRows == 3

JNumber == [t |-> "number"]
Str(v) == [t |-> "string", v |-> v, ws |-> "none"]
Padded(v) == [t |-> "string", v |-> v, ws |-> "padded"]
Blank == [t |-> "string", ws |-> "blank"]
Empty == [t |-> "string", ws |-> "empty"]
NullRow == [null |-> TRUE]

\* the keys tried for each field, in the order of fieldMappings
TitleKeys == <<"title", "course">>
TimeKeys == <<"time">>
DateKeys == <<"day">>
TypeKeys == <<"type">>
DurationKeys == <<"duration">>

\* value && typeof value === 'string' && value.trim()
Usable(value) == value.t = "string" /\ value.ws \in {"none", "padded"}

\* findValueByKeys: the trimmed value of the first key that has a usable one
FindValueByKeys(row, keys) ==
    IF \E k \in 1..Len(keys) : Usable(row[keys[k]])
    THEN LET k == CHOOSE k \in 1..Len(keys) :
                      /\ Usable(row[keys[k]])
                      /\ \A j \in 1..(k - 1) : ~Usable(row[keys[j]])
         IN  Str(row[keys[k]].v)
    ELSE Undefined

\* the row has a resolvable title
HasTitle(row) == row # NullRow /\ FindValueByKeys(row, TitleKeys) # Undefined

\* cleanTitle: runs of white space inside the title become one space
CleanTitle(title) ==
    IF title = "Data  Structures" THEN "Data Structures" ELSE title

DefaultTime == <<Clock(9, 0), Clock(10, 30)>>     \* '09:00 - 10:30'

\* mapRowToEvent for a row with a title (index is 0-based)
MapRowToEvent(row, index, now) ==
    LET time == FindValueByKeys(row, TimeKeys)
        date == FindValueByKeys(row, DateKeys)
        type == FindValueByKeys(row, TypeKeys)
        duration == FindValueByKeys(row, DurationKeys)
        normalTime == NormalizeTime(IF time = Undefined THEN DefaultTime
                                    ELSE time.v)
    IN  [id |-> [src |-> "local-parsed", n |-> index],
         title |-> CleanTitle(FindValueByKeys(row, TitleKeys).v),
         time |-> normalTime,
         date |-> IF date = Undefined
                  THEN NormalizeDate(GetNextWeekday(1, now), now)
                  ELSE NormalizeDate(date.v, now),
         type |-> NormalizeEventType(IF type = Undefined THEN "lecture"
                                     ELSE type.v),
         duration |-> IF duration = Undefined
                      THEN CalculateDuration(normalTime)
                      ELSE duration.v]

\* a conversion that gives up at the first row it cannot convert
RECURSIVE ConvertRowsUntilDrop(_, _, _)
ConvertRowsUntilDrop(rows, index, now) ==
    IF index >= Len(rows) THEN <<>>
    ELSE IF HasTitle(rows[index + 1])
    THEN <<MapRowToEvent(rows[index + 1], index, now)>>
         \o ConvertRowsUntilDrop(rows, index + 1, now)
    ELSE <<>>

\* convertRowsToEvents from the row of the given index on: a null row throws
\* in findValueByKeys and is skipped by the catch, a row without title maps
\* to null and is not pushed
RECURSIVE ConvertRowsToEvents(_, _, _)
ConvertRowsToEvents(rows, index, now) ==
    IF index >= Len(rows) THEN <<>>
    ELSE IF HasTitle(rows[index + 1])
    THEN <<MapRowToEvent(rows[index + 1], index, now)>>
         \o ConvertRowsToEvents(rows, index + 1, now)
    ELSE ConvertRowsToEvents(rows, index + 1, now)

\* the rows of the model: only the title cells vary here
Row(title, course) ==
    [title |-> title, course |-> course, time |-> Undefined, day |-> Undefined,
     type |-> Undefined, duration |-> Undefined]
RowSamples ==
    {NullRow,
     Row(Str("Data  Structures"), Undefined),
     Row(Undefined, Padded("Databases")),
     Row(JNumber, Str("Networks")),
     Row(Undefined, Undefined),
     Row(Blank, Empty),
     Row(JNumber, Undefined)}
RowLists == UNION {[1..n -> RowSamples] : n \in 0..MaxSheetRows}

(***************************************************************************)
(* Calendar mapper with the date: part_001 convertToCalendarEvent,         *)
(* parseTimeRange, parseTime, and the start and end of createEvent's       *)
(* payload.  An instant is its number of minutes since the epoch (UTC); a  *)
(* Date shows the local day and clock of the zone with offset tz.          *)
(***************************************************************************)
\* new Date('YYYY-MM-DD'): midnight UTC of that day
NewDate(date) == date.day * 1440

\* date.setHours(hours, minutes, 0, 0): the clock of the LOCAL day of instant
SetHours(instant, hours, minutes, tz) ==
    ((instant + tz) \div 1440) * 1440 + hours * 60 + minutes - tz

\* parseTime(timeStr, baseDate) for an HH:MM clock
ParseTimeOnDate(clock, baseDate, tz) == SetHours(baseDate, clock.h, clock.m, tz)

\* parseTimeRange(timeRange, dateString) for a 'start - end' range
ParseTimeRangeOnDate(time, date, tz) ==
    <<ParseTimeOnDate(time[1], NewDate(date), tz),
      ParseTimeOnDate(time[2], NewDate(date), tz)>>

\* Date.toISOString: the UTC day and minute of the instant
ToISOString(instant) == [day |-> instant \div 1440, minute |-> instant % 1440]

\* the start and end of the payload createEvent sends for the event
CalendarPayloadTimes(event, tz) ==
    LET range == ParseTimeRangeOnDate(event.time, event.date, tz)
    IN  [start |-> [dateTime |-> ToISOString(range[1]), timeZone |-> "UTC"],
         end |-> [dateTime |-> ToISOString(range[2]), timeZone |-> "UTC"]]

\* the local day and clock of a timestamp, in the zone with offset tz
LocalClock(dateTime, tz) ==
    LET local == dateTime.day * 1440 + dateTime.minute + tz
    IN  [day |-> local \div 1440,
         clock |-> Clock((local % 1440) \div 60, (local % 1440) % 60)]

\* the date and time range read back from the payload's timestamps
FromPayload(payload, tz) ==
    LET s == LocalClock(payload.start.dateTime, tz)
        e == LocalClock(payload.end.dateTime, tz)
    IN  [date |-> IsoDate(s.day), time |-> <<s.clock, e.clock>>]

(***************************************************************************)
(* Inputs of the functions                                                 *)
(***************************************************************************)
Ranges24 ==
    {<<Clock(9, 0), Clock(10, 30)>>, <<Clock(8, 30), Clock(9, 0)>>,
     <<Clock(13, 0), Clock(15, 0)>>, <<Clock(0, 0), Clock(23, 59)>>,
     <<Clock(22, 0), Clock(23, 30)>>}
OtherTimes ==
    {<<Clock12(2, 30, "pm")>>,                 \* '2:30 pm'
     <<Clock12(2, NoMinutes, "PM")>>,          \* '2 PM'
     <<Clock(9, NoMinutes)>>,                  \* '9'
     <<Clock12(1, 30, "PM PM")>>,              \* '1:30 PM PM'
     <<Clock12(9, 0, "am"), Clock12(10, 30, "am")>>}
\* every 12-hour time and a range of minutes of every hour as single times,
\* and ranges of 24-hour and of 12-hour times
TimeInputs ==
    {<<Clock(h, m)>> : h \in 0..23, m \in {0, 29, 30, 31, 59}}
    \cup {<<Clock12(h, m, p)>> : h \in 1..12, m \in 0..59, p \in {"AM", "PM"}}
    \cup {<<Clock12(h, 30, p), Clock12(12, 0, q)>> :
              h \in {1, 11, 12}, p \in {"AM", "PM"}, q \in {"AM", "PM"}}
    \cup Ranges24 \cup OtherTimes

DateInputs ==
    {DayName(d) : d \in 0..6} \cup {IsoDate(12), LocalDate(12), TextDate}

TypeInputs == {"LAB", "Lab Session", "Seminar", "tutorial", "meeting", "break",
               "lecture", "exam"}

Titled(time, date, type, duration) ==
    [title |-> Str("Algorithms"), course |-> Undefined, time |-> time,
     day |-> date, type |-> type, duration |-> duration]

\* the rows given to mapRowToEvent: every time with the other cells absent,
\* and a few times with every combination of the other cells
OptionalCell(values) == {Undefined} \cup {Str(v) : v \in values}
TitledRows ==
    {Titled(time, Undefined, Undefined, Undefined) :
        time \in OptionalCell(TimeInputs) \cup {Padded(<<Clock(23, 0)>>), Blank}}
    \cup
    {Titled(time, date, type, duration) :
        time \in OptionalCell(Ranges24 \cup OtherTimes),
        date \in OptionalCell({DayName(2), IsoDate(12), LocalDate(12), TextDate}),
        type \in OptionalCell(TypeInputs),
        duration \in OptionalCell({Duration("h", 2, 0)})}

NoonUTC == [day |-> 12, minute |-> 720, tz |-> 0]
FewNows == {NoonUTC, [day |-> 13, minute |-> 30, tz |-> 330],
            [day |-> 14, minute |-> 1410, tz |-> 0 - 300]}

\* the normalized events given to the calendar mapper
MapperEvents ==
    {[date |-> IsoDate(d), time |-> time] :
        d \in 10..16, time \in Ranges24 \cup {NormalizeTime(<<Clock(h, 0)>>) : h \in 0..22}}
ZoneOffsets == {0 - 480, 0 - 300, 0, 60, 330}

\* the normalization rules of mapRowToEvent applied to an event's fields
Renormalize(event, now) ==
    [time |-> NormalizeTime(event.time),
     date |-> NormalizeDate(event.date, now),
     type |-> NormalizeEventType(event.type),
     duration |-> event.duration]      \* a duration that is present is kept

(***************************************************************************)
(* SpecFunctions: the pure functions, applied to inputs of the sets above  *)
(***************************************************************************)
\* one call of a function: its name, its argument and what it returns
Apply(name, arg, out) ==
    /\ fn' = name
    /\ fnArg' = arg
    /\ fnOut' = out
    /\ UNCHANGED <<tokens, engineVars, authVars>>
    /\ UNCHANGED parseVars
    /\ UNCHANGED calVars

ApplyConvertRowsToEvents ==
    /\ fn = "none"
    /\ \E rows \in RowLists, now \in {NoonUTC} :
           Apply("convertRowsToEvents", [rows |-> rows, now |-> now],
                 ConvertRowsToEvents(rows, 0, now))

ApplyMapRowToEvent ==
    /\ fn = "none"
    /\ \E row \in TitledRows, now \in {NoonUTC} :
           Apply("mapRowToEvent", [row |-> row, now |-> now],
                 MapRowToEvent(row, 0, now))

ApplyNormalizeTime ==
    /\ fn = "none"
    /\ \E time \in TimeInputs :
           Apply("normalizeTime", time, NormalizeTime(time))

ApplyNormalizeDate ==
    /\ fn = "none"
    /\ \E date \in DateInputs, now \in NowSamples :
           Apply("normalizeDate", [date |-> date, now |-> now],
                 NormalizeDate(date, now))

ApplyNormalizeAgain ==
    /\ fn = "none"
    /\ \E row \in TitledRows, now \in FewNows, later \in FewNows :
           LET event == MapRowToEvent(row, 0, now)
           IN  Apply("normalizeAgain", [event |-> event, now |-> later],
                     Renormalize(event, later))

ApplyConvertToCalendarEvent ==
    /\ fn = "none"
    /\ \E event \in MapperEvents, tz \in ZoneOffsets :
           Apply("convertToCalendarEvent", [event |-> event, tz |-> tz],
                 CalendarPayloadTimes(event, tz))

InitFunctions ==
    /\ FnIdle
    /\ AuthIdle
    /\ ParseIdle
    /\ CalIdle
    /\ llm = "none"
    /\ tokens = "none"
    /\ timetableEvents = <<>>
    /\ syncPc = "idle"
    /\ batches = <<>>
    /\ batchIndex = 0
    /\ task = <<>>
    /\ attempts = <<>>
    /\ result = NewSyncResult
    /\ progress = <<>>

NextFunctions ==
    \/ ApplyConvertRowsToEvents
    \/ ApplyMapRowToEvent
    \/ ApplyNormalizeTime
    \/ ApplyNormalizeDate
    \/ ApplyNormalizeAgain
    \/ ApplyConvertToCalendarEvent

SpecFunctions == InitFunctions /\ [][NextFunctions]_vars

(***************************************************************************)
(* Properties of the structured parser's functions (SpecFunctions)         *)
(***************************************************************************)
\* the 0-based indexes of the rows with a resolvable title, in row order
RECURSIVE TitledIndexes(_, _)
TitledIndexes(rows, index) ==
    IF index >= Len(rows) THEN <<>>
    ELSE (IF HasTitle(rows[index + 1]) THEN <<index>> ELSE <<>>)
         \o TitledIndexes(rows, index + 1)

\* C23: convertRowsToEvents yields exactly one event per row with a
\* resolvable title, in row order, each carrying its row's index and title,
\* and none for the other rows; a dropped row does not stop the rows after it.
C23_OneEventPerTitledRow ==
    fn = "convertRowsToEvents" =>
        LET kept == TitledIndexes(fnArg.rows, 0)
        IN  /\ Len(fnOut) = Len(kept)
            /\ \A k \in 1..Len(kept) :
                   /\ fnOut[k].id.n = kept[k]
                   /\ fnOut[k] = MapRowToEvent(fnArg.rows[kept[k] + 1], kept[k],
                                               fnArg.now)

\* a dropped row (a null row first, then a row without title) stands before
\* a row that is converted
C23_Witness ==
    /\ fn = "convertRowsToEvents"
    /\ Len(fnArg.rows) = 3
    /\ fnArg.rows[1] = NullRow
    /\ fnArg.rows[2] = Row(Blank, Empty)
    /\ Len(fnOut) = 1
    /\ fnOut[1].id.n = 2
    /\ fnOut[1].title = "Databases"

\* C24: a weekday named in a row's date resolves to a date 1 to 7 days after
\* today whose weekday is the named one, and 7 days after today when the
\* named weekday is today's.
C24_NextWeekday ==
    fn = "normalizeDate" /\ fnArg.date.kind = "weekday" =>
        LET offset == fnOut.day - fnArg.now.day
        IN  /\ offset \in 1..7
            /\ Weekday(fnOut.day) = fnArg.date.day
            /\ (Weekday(fnArg.now.day) = fnArg.date.day => offset = 7)

\* the minutes of the day of an HH:MM clock
MinuteOfDay(clock) == clock.h * 60 + clock.m

\* the row's time cell is absent, or a single HH:MM start time
StartOnly(row) ==
    \/ row.time = Undefined
    \/ /\ Usable(row.time)
       /\ Len(row.time.v) = 1
       /\ row.time.v[1].p = ""
       /\ row.time.v[1].m # NoMinutes

\* C25: for a titled row whose time is absent or a single HH:MM start (and
\* that brings no duration of its own), the normalized time is 'start - end'
\* with the end 90 minutes after the start (on the clock), and the duration
\* computed from that range renders as "1h 30m".
C25_DefaultDuration ==
    fn = "mapRowToEvent" /\ StartOnly(fnArg.row)
                         /\ fnArg.row.duration = Undefined =>
        /\ Len(fnOut.time) = 2
        /\ MinuteOfDay(fnOut.time[2]) = (MinuteOfDay(fnOut.time[1]) + 90) % 1440
        /\ fnOut.duration = OneHourThirty

\* a valid 12-hour time: hour 1..12, minute 00..59, marker AM or PM
Valid12(part) ==
    part.h \in 1..12 /\ part.m \in 0..59 /\ part.p \in {"AM", "PM"}

\* the 24-hour hour of a valid 12-hour time
Hour24(part) ==
    IF part.p = "AM" THEN (IF part.h = 12 THEN 0 ELSE part.h)
    ELSE (IF part.h = 12 THEN 12 ELSE part.h + 12)

\* C26: normalizeTime turns every valid 12-hour time into the right 24-hour
\* time: 12 AM is hour 00, 12 PM stays 12, another PM hour h is h + 12,
\* another AM hour is unchanged, and the minutes are preserved.
C26_TwelveHourConversion ==
    fn = "normalizeTime" /\ (\A i \in 1..Len(fnArg) : Valid12(fnArg[i])) =>
        \A i \in 1..Len(fnArg) : fnOut[i] = Clock(Hour24(fnArg[i]), fnArg[i].m)

\* the four cases have been converted: 12 AM, 12 PM, another PM, another AM
C26_Witness ==
    /\ fn = "normalizeTime"
    /\ fnArg = <<Clock12(12, 30, "AM"), Clock12(12, 0, "PM")>>
    /\ fnOut = <<Clock(0, 30), Clock(12, 0)>>

\* C27: the date and the time range read back from the payload's start and
\* end timestamps, in the zone the event was mapped in, are the event's.
C27_RoundTrip ==
    fn = "convertToCalendarEvent" =>
        FromPayload(fnOut, fnArg.tz) = fnArg.event

\* C28 as stated: the normalization rules applied to an event they produced
\* change none of its time, date, type and duration.
C28_Idempotent ==
    fn = "normalizeAgain" =>
        /\ fnOut.time = fnArg.event.time
        /\ fnOut.date = fnArg.event.date
        /\ fnOut.type = fnArg.event.type
        /\ fnOut.duration = fnArg.event.duration

\* C28, amended: the normalization rules applied to an event they produced
\* and whose time holds no 'AM' or 'PM' any more change none of its time,
\* date, type and duration.
C28_IdempotentWithoutMarker ==
    fn = "normalizeAgain" /\ ~IncludesMarker(fnArg.event.time) =>
        /\ fnOut.time = fnArg.event.time
        /\ fnOut.date = fnArg.event.date
        /\ fnOut.type = fnArg.event.type
        /\ fnOut.duration = fnArg.event.duration

\* an event made from a weekday name, a time and a type word has been
\* normalized again, on a later day and in another zone
C28_Witness ==
    /\ fn = "normalizeAgain"
    /\ fnArg.event.time = <<Clock(13, 0), Clock(15, 0)>>
    /\ fnArg.event.type = "tutorial"
    /\ fnArg.event.date = IsoDate(17)
    /\ fnArg.now.day = 14
    /\ fnOut.date = IsoDate(17)
    /\ fnOut.time = fnArg.event.time

(***************************************************************************)
(* Sync Engine: the mapping comes first (SpecSync)                         *)
(***************************************************************************)
\* the time splits on ' - ' into two parts that are both HH:MM numbers
TwoClockTimes(time) ==
    /\ Len(time) = 2
    /\ \A k \in 1..2 : Len(time[k]) = 2 /\ time[k][1] # NaN /\ time[k][2] # NaN

\* C29: if the time of any single event cannot be mapped, syncEvents throws
\* with no create-event call issued for any event of the list, no SyncResult
\* returned, no batch formed and no progress reported; so every create-event
\* call is issued after all events have been mapped.
C29_MappingFirst ==
    /\ (syncPc # "idle"
        /\ \E i \in 1..Len(timetableEvents) :
               ~TwoClockTimes(timetableEvents[i].time)) =>
           /\ syncPc = "thrown"
           /\ \A id \in Ids : attempts[id] = 0 /\ task[id] = "pending"
           /\ result = NewSyncResult
           /\ batches = <<>>
           /\ progress = <<>>
    /\ (\E id \in Ids : attempts[id] > 0) =>
           \A i \in 1..Len(timetableEvents) :
               TwoClockTimes(timetableEvents[i].time)

\* one event of text times after two good ones: syncEvents has thrown
C29_Witness ==
    /\ syncPc = "thrown"
    /\ Len(timetableEvents) = 3
    /\ timetableEvents[1].time = GoodTime
    /\ timetableEvents[2].time = GoodTime
    /\ timetableEvents[3].time = TextTime
    /\ \A id \in Ids : attempts[id] = 0

(***************************************************************************)
(* Token service: src/services/google-auth.ts.                             *)
(*                                                                         *)
(* tokens is this.tokens ("none" for null, "valid", or "expired" once the  *)
(* expiry less five minutes has passed); storedTokens is the entry of      *)
(* localStorage, which may also hold "garbage" (not decodable, or without  *)
(* access_token and expiry_date).  authFlows counts the authenticate()     *)
(* calls whose callback has not come yet, signOutPc follows signOut(), and *)
(* tokenCall keeps what the last getValidAccessToken() call did.           *)
(***************************************************************************)
MaxAuthFlows == 2

StoredSamples == {"none", "valid", "expired", "garbage"}

\* loadStoredTokens: what the constructor makes of the stored entry
LoadStoredTokens(stored) ==
    IF stored \in {"valid", "expired"}
    THEN [tokens |-> stored, storedTokens |-> stored]
    ELSE [tokens |-> "none", storedTokens |-> "none"]    \* clearStoredTokens

\* isAuthenticated()
IsAuthenticated(tok) == tok = "valid"

\* getValidAccessToken() up to its first await
GetValidAccessTokenOutcome(tok) ==
    CASE tok = "none" -> "thrown"          \* 'Not authenticated. Please sign in first.'
      [] tok = "expired" -> "reauth"       \* await this.authenticate()
      [] OTHER -> "returned"               \* return this.tokens.access_token

\* a sign-out that forgets the token in memory only
ClearMemoryOnly ==
    /\ tokens' = "none"
    /\ UNCHANGED storedTokens

\* this.tokens = null; this.clearStoredTokens()
ClearTokens ==
    /\ tokens' = "none"
    /\ storedTokens' = "none"

\* authenticate() or authenticateWithPopup() is called: the token client
\* is asked for a token
Authenticate ==
    /\ authFlows < MaxAuthFlows
    /\ authFlows' = authFlows + 1
    /\ UNCHANGED <<tokens, storedTokens, signOutPc, tokenCall>>
    /\ UNCHANGED <<engineVars, fnVars>>
    /\ UNCHANGED parseVars
    /\ UNCHANGED calVars

\* the callback brings an access token: it is kept, and stored unless
\* localStorage refuses (storeTokens catches that)
AuthenticateSucceeds(stored) ==
    /\ authFlows > 0
    /\ authFlows' = authFlows - 1
    /\ tokens' = "valid"
    /\ storedTokens' = IF stored THEN "valid" ELSE storedTokens
    /\ signOutPc' = IF signOutPc = "done" THEN "idle" ELSE signOutPc
    /\ UNCHANGED tokenCall
    /\ UNCHANGED <<engineVars, fnVars>>
    /\ UNCHANGED parseVars
    /\ UNCHANGED calVars

\* the callback brings an error or no token, or error_callback is called
AuthenticateFails ==
    /\ authFlows > 0
    /\ authFlows' = authFlows - 1
    /\ UNCHANGED <<tokens, storedTokens, signOutPc, tokenCall>>
    /\ UNCHANGED <<engineVars, fnVars>>
    /\ UNCHANGED parseVars
    /\ UNCHANGED calVars

\* signOut(): with a token the revocation is requested and awaited, without
\* one the tokens are cleared at once
SignOut ==
    /\ signOutPc # "revoking"
    /\ IF tokens # "none"
       THEN /\ signOutPc' = "revoking"
            /\ UNCHANGED <<tokens, storedTokens>>
       ELSE /\ ClearTokens
            /\ signOutPc' = "done"
    /\ UNCHANGED <<authFlows, tokenCall>>
    /\ UNCHANGED <<engineVars, fnVars>>
    /\ UNCHANGED parseVars
    /\ UNCHANGED calVars

\* the revocation request settles: fulfilled with any status, or rejected
\* (caught and logged); signOut goes on to clear the tokens
RevokeSettles(fulfilled) ==
    /\ signOutPc = "revoking"
    /\ ClearTokens
    /\ signOutPc' = "done"
    /\ UNCHANGED <<authFlows, tokenCall>>
    /\ UNCHANGED <<engineVars, fnVars>>
    /\ UNCHANGED parseVars
    /\ UNCHANGED calVars

\* getValidAccessToken() is called; an expired token starts authenticate()
GetValidAccessToken ==
    /\ GetValidAccessTokenOutcome(tokens) = "reauth" => authFlows < MaxAuthFlows
    /\ tokenCall' = [kind |-> "getValidAccessToken",
                     isAuthenticated |-> IsAuthenticated(tokens),
                     signedOut |-> (signOutPc = "done"),
                     outcome |-> GetValidAccessTokenOutcome(tokens),
                     flowsStarted |->
                         IF GetValidAccessTokenOutcome(tokens) = "reauth"
                         THEN 1 ELSE 0]
    /\ authFlows' = IF GetValidAccessTokenOutcome(tokens) = "reauth"
                    THEN authFlows + 1 ELSE authFlows
    /\ UNCHANGED <<tokens, storedTokens, signOutPc>>
    /\ UNCHANGED <<engineVars, fnVars>>
    /\ UNCHANGED parseVars
    /\ UNCHANGED calVars

\* the expiry of the token, less the five minutes of buffer, passes
TokenExpires ==
    /\ tokens = "valid" \/ storedTokens = "valid"
    /\ tokens' = IF tokens = "valid" THEN "expired" ELSE tokens
    /\ storedTokens' = IF storedTokens = "valid" THEN "expired" ELSE storedTokens
    /\ UNCHANGED <<signOutPc, authFlows, tokenCall>>
    /\ UNCHANGED <<engineVars, fnVars>>
    /\ UNCHANGED parseVars
    /\ UNCHANGED calVars

\* the page is loaded again: what was in flight is gone, and the constructor
\* of the new instance loads the stored tokens
Reload ==
    /\ tokens' = LoadStoredTokens(storedTokens).tokens
    /\ storedTokens' = LoadStoredTokens(storedTokens).storedTokens
    /\ authFlows' = 0
    /\ signOutPc' = IF signOutPc = "revoking" THEN "idle" ELSE signOutPc
    /\ tokenCall' = [kind |-> "none"]
    /\ UNCHANGED <<engineVars, fnVars>>
    /\ UNCHANGED parseVars
    /\ UNCHANGED calVars

InitAuth ==
    /\ \E stored \in StoredSamples :
           /\ tokens = LoadStoredTokens(stored).tokens
           /\ storedTokens = LoadStoredTokens(stored).storedTokens
    /\ signOutPc = "idle"
    /\ authFlows = 0
    /\ tokenCall = [kind |-> "none"]
    /\ FnIdle
    /\ ParseIdle
    /\ CalIdle
    /\ llm = "none"
    /\ timetableEvents = <<>>
    /\ syncPc = "idle"
    /\ batches = <<>>
    /\ batchIndex = 0
    /\ task = <<>>
    /\ attempts = <<>>
    /\ result = NewSyncResult
    /\ progress = <<>>

NextAuth ==
    \/ Authenticate
    \/ \E stored \in BOOLEAN : AuthenticateSucceeds(stored)
    \/ AuthenticateFails
    \/ SignOut
    \/ \E fulfilled \in BOOLEAN : RevokeSettles(fulfilled)
    \/ GetValidAccessToken
    \/ TokenExpires
    \/ Reload

SpecAuth == InitAuth /\ [][NextAuth]_vars

\* C30: after signOut completes, whether or not the revocation succeeded,
\* and until a later authenticate succeeds, the token in memory and the
\* stored token are both cleared, isAuthenticated() is false and
\* getValidAccessToken() throws; and a getValidAccessToken() call made while
\* isAuthenticated() is true returns the token without starting a
\* re-authentication.
C30_SignOutClears ==
    /\ signOutPc = "done" =>
           /\ tokens = "none"
           /\ storedTokens = "none"
           /\ ~IsAuthenticated(tokens)
           /\ GetValidAccessTokenOutcome(tokens) = "thrown"
    /\ tokenCall.kind = "getValidAccessToken" =>
           /\ tokenCall.signedOut => tokenCall.outcome = "thrown"
           /\ tokenCall.isAuthenticated =>
                  tokenCall.outcome = "returned" /\ tokenCall.flowsStarted = 0

\* signOut has completed on a token that was valid and stored, and
\* getValidAccessToken() has been called after it
C30_Witness ==
    /\ signOutPc = "done"
    /\ tokenCall.kind = "getValidAccessToken"
    /\ tokenCall.signedOut
    /\ tokenCall.outcome = "thrown"
    /\ authFlows > 0

\* getValidAccessToken() has been called while isAuthenticated() was true
C30_WitnessAuthenticated ==
    /\ tokenCall.kind = "getValidAccessToken"
    /\ tokenCall.isAuthenticated
    /\ tokenCall.outcome = "returned"

====
